---- MODULE Spec2Model ----
(***************************************************************************)
(* hf_scraper: the two-phase harvesting pipeline (BaseScraper), its Redis  *)
(* task queue and sliding-window rate limiter (RedisClient) and the Mongo  *)
(* document store (MongoDBClient), as a state machine.                     *)
(***************************************************************************)
EXTENDS Integers, Sequences, FiniteSets, TLC

\* ------------------------------------------------------------------ bounds
MaxTicks == 2          \* clock advances per behaviour
MaxCalls == 4          \* evaluations of the rate-limit script by the waiters
MaxFaults == 4         \* failures of Mongo and of the remote detail endpoint
MaxRev == 2            \* revisions of the remote detail
MaxJobs == 2           \* tasks of one drained batch (RateLimits go up to 2 * MaxJobs)
BatchSize == 2         \* --batch-size of the runs
PageSize == 2          \* page_size of the query for the users to delete
DeleteBatchSize == 1   \* batch_size of delete_nodes
MaxDeleted == 4        \* total_deleted is counted up to here

\* --------------------------------------------------------- program constants
rate_limit_window == 60
rate_limit_key == "rate_limit"
default_min_upvotes == 100

TickSteps == {1, 59}       \* amounts by which the whole-second clock advances
Kinds == {"likers", "contributors", "upvoters"}   \* the kinds the scrapers throttle
WaitKinds == {"likers", "upvoters"}     \* the kinds the callers of SpecLimiter wait on
Limits == {1, 2}                        \* their limits (one --rate-limit per process)
Waiters == {"w1", "w2"}

VARIABLES
    now,        \* int(time.time()): the clock, in whole seconds
    ticks,      \* number of clock advances so far (bounded by MaxTicks)
    zsets,      \* Redis sorted sets: key -> set of [member, score]
    ncalls,     \* history: number of evaluations of the script by the waiters
    admitLog,   \* history: key -> sequence of the timestamps of the admitted calls
    lastCall,   \* history: the latest evaluation of the script by a waiter
    waiter,     \* the callers of wait_for_rate_limit
    config,     \* the command line of the run and the remote catalog it enumerates
    lists,      \* Redis lists: "tasks_<item_type>" -> sequence of serialized tasks
    store,      \* Mongo: collection -> (_id -> document)
    scraper,    \* per process: the fields _basic_stage and _extended_stage
    ph1,        \* per process: the coroutine scrape()
    ph2,        \* per process: the coroutine process_extended_tasks() and its gather
    remote,     \* the remote detail of the items, as a revision number
    hist,       \* history: unique numbering of pushes, pops and fetches
    dgraph,     \* Dgraph: the nodes in the order of their creation, and the edges
    migrator    \* the coroutine GraphMigrator.migrate_all()

limiterVars == <<zsets, ncalls, admitLog, lastCall, waiter>>
clockVars == <<now, ticks>>
graphVars == <<dgraph, migrator>>
pipeVars == <<config, lists, store, scraper, ph1, ph2, remote, hist, graphVars>>
vars == <<now, ticks, zsets, ncalls, admitLog, lastCall, waiter,
          config, lists, store, scraper, ph1, ph2, remote, hist, dgraph, migrator>>

\* ------------------------------------------------------------ Redis sorted set
ZREMRANGEBYSCORE(z, min, max) == {e \in z : ~(min <= e.score /\ e.score <= max)}

ZCARD(z) == Cardinality(z)

\* ZADD updates the score of a member that is already in the set
ZADD(z, score, member) ==
    {e \in z : e.member # member} \cup {[member |-> member, score |-> score]}

\* tostring(now) of the Lua script
tostring(n) == ToString(n)

\* script with the admission recorded before the count is compared
script_record_first(z, t, window, limit) ==
    LET start == t - window
        added == ZADD(ZREMRANGEBYSCORE(z, 0, start), t, tostring(t))
        count == ZCARD(added)
    IN  IF count > limit
        THEN [ret |-> 1, z |-> added, count |-> count - 1]
        ELSE [ret |-> 0, z |-> added, count |-> count - 1]

\* The Lua script of RedisClient, run atomically by Redis (EVALSHA).
script(z, t, window, limit) ==
    LET start == t - window
        pruned == ZREMRANGEBYSCORE(z, 0, start)
        count == ZCARD(pruned)
    IN  IF count >= limit
        THEN [ret |-> 1, z |-> pruned, count |-> count]
        ELSE [ret |-> 0, z |-> ZADD(pruned, t, tostring(t)), count |-> count]

\* f"{self.rate_limit_key}:{key}"
RLKey(kind) == rate_limit_key \o ":" \o kind

RLKeys == {RLKey(k) : k \in Kinds}

NoCall == [key |-> "", limit |-> 0, ret |-> 2, count |-> 0, t |-> 0, before |-> [k \in RLKeys |-> {}]]

\* the script evaluated on one sorted set for every key (KEYS[1] is the bare
\* rate_limit_key, which the set of the first kind stands for)
is_rate_limited_one_set(key, limit) ==
    LET shared == RLKey("likers")
        r == script(zsets[shared], now, rate_limit_window, limit)
    IN  /\ ncalls < MaxCalls
        /\ zsets' = [zsets EXCEPT ![shared] = r.z]
        /\ ncalls' = ncalls + 1
        /\ admitLog' = IF r.ret = 0
                       THEN [admitLog EXCEPT ![key] = Append(@, now)]
                       ELSE admitLog
        /\ lastCall' = [key |-> key, limit |-> limit, ret |-> r.ret, count |-> r.count,
                        t |-> now, before |-> zsets]

\* is_rate_limited(key, limit): one evaluation of the script on the key, with
\* its history.  The result is lastCall'.ret = 1.
is_rate_limited(key, limit) ==
    LET r == script(zsets[key], now, rate_limit_window, limit)
    IN  /\ ncalls < MaxCalls
        /\ zsets' = [zsets EXCEPT ![key] = r.z]
        /\ ncalls' = ncalls + 1
        /\ admitLog' = IF r.ret = 0
                       THEN [admitLog EXCEPT ![key] = Append(@, now)]
                       ELSE admitLog
        /\ lastCall' = [key |-> key, limit |-> limit, ret |-> r.ret, count |-> r.count,
                        t |-> now, before |-> zsets]

\* ------------------------------------------------------ wait_for_rate_limit
\* admitted, recorded: history of the call in progress (its admitted polls, and
\* by how much the key's sorted set grew at them)
Idle == [pc |-> "idle", key |-> "", limit |-> 0, wake |-> 0, admitted |-> 0, recorded |-> 0]

\* a caller enters wait_for_rate_limit(kind, limit)
WaitCall(w, kind, limit) ==
    /\ waiter[w].pc = "idle"
    /\ waiter' = [waiter EXCEPT ![w] =
                    [pc |-> "poll", key |-> RLKey(kind), limit |-> limit, wake |-> 0,
                     admitted |-> 0, recorded |-> 0]]
    /\ UNCHANGED <<now, ticks, zsets, ncalls, admitLog, lastCall>>
    /\ UNCHANGED pipeVars

\* while await self.is_rate_limited(key, limit): await asyncio.sleep(1)
WaitPoll(w) ==
    /\ waiter[w].pc = "poll"
    /\ is_rate_limited(waiter[w].key, waiter[w].limit)
    /\ waiter' = [waiter EXCEPT ![w] =
                    IF lastCall'.ret = 1
                    THEN [@ EXCEPT !.pc = "sleep", !.wake = now + 1]
                    ELSE [@ EXCEPT !.pc = "returned", !.admitted = @ + 1,
                                    !.recorded = @ + ZCARD(zsets'[waiter[w].key])
                                                   - lastCall'.count]]
    /\ UNCHANGED <<now, ticks>>
    /\ UNCHANGED pipeVars

\* asyncio.sleep(1) is over
WaitWake(w) ==
    /\ waiter[w].pc = "sleep"
    /\ now >= waiter[w].wake
    /\ waiter' = [waiter EXCEPT ![w].pc = "poll"]
    /\ UNCHANGED <<now, ticks, zsets, ncalls, admitLog, lastCall>>
    /\ UNCHANGED pipeVars

\* the caller goes on after wait_for_rate_limit returned
WaitReturn(w) ==
    /\ waiter[w].pc = "returned"
    /\ waiter' = [waiter EXCEPT ![w] = Idle]
    /\ UNCHANGED <<now, ticks, zsets, ncalls, admitLog, lastCall>>
    /\ UNCHANGED pipeVars

\* the clock advances
Tick(d) ==
    /\ ticks < MaxTicks
    /\ now' = now + d
    /\ ticks' = ticks + 1
    /\ UNCHANGED <<limiterVars, pipeVars>>



\* ------------------------------------------------------------------ the run
Procs == {"p1", "p2"}
\* p1 runs scrape() and process_extended_tasks() together; p2 was started with
\* --resume and runs process_extended_tasks() alone
Resume(p) == p = "p2"

Ids == {"a", "b"}

Clean == [private |-> FALSE, disabled |-> FALSE, gated |-> FALSE]
Private == [private |-> TRUE, disabled |-> FALSE, gated |-> FALSE]
Gated == [private |-> FALSE, disabled |-> FALSE, gated |-> TRUE]

\* owner_name: FALSE for a collection whose owner mapping has no 'name';
\* item: for a collection, the stored item list_collections was asked about
Summary(id, tags, status, upvotes) ==
    [id |-> id, tags |-> tags, status |-> status, upvotes |-> upvotes, owner_name |-> TRUE,
     item |-> ""]

\* a collection as list_collections(item=item_id) returns it
ListedFor(item_id, c) == [c EXCEPT !.item = item_id]

\* --tags: tags.split(',') if tags else None
NoTags == [none |-> TRUE, list |-> {}]
Tags(l) == [none |-> FALSE, list |-> l]

item_type(cfg) == cfg.type

\* ModelScraper.list_items: the tag filter iterates self.tags, which raises
\* TypeError on the first listed model when no --tags was given
list_raises(cfg) ==
    /\ cfg.type = "models"
    /\ cfg.tags.none
    /\ cfg.catalog # <<>>

\* CollectionScraper: the collection_filter (filter_by_min_upvotes)
apply(cfg, c) == c.upvotes >= cfg.min_upvotes

\* find_one({"items": item_id}) on the collections store: a document matches when
\* its top-level field items is, or holds, item_id
find_one_items(docs, item_id) ==
    \E id \in DOMAIN docs : "items" \in DOMAIN docs[id] /\ docs[id].items = item_id

\* list_items(): the summaries the variant yields, in order.  For collections the
\* items with a match of find_one({"items": item_id}) are passed over and the
\* collections of the others go through the collection_filter.
list_items(cfg) ==
    IF cfg.type = "models"
    THEN SelectSeq(cfg.catalog, LAMBDA m : \E x \in cfg.tags.list : x \in m.tags)
    ELSE SelectSeq(cfg.catalog,
                   LAMBDA c : ~find_one_items(store["collections"], c.item) /\ apply(cfg, c))

\* the id taken from another attribute of the summary than the metadata's id
get_item_id_other(cfg, item) == item.item

get_item_id(cfg, item) == item.id

\* get_item_metadata raises: item.owner['name'] of CollectionScraper is a KeyError
\* when the owner mapping has no 'name'
metadata_raises(cfg, item) == cfg.type = "collections" /\ ~item.owner_name

\* get_item_metadata: the projection of a summary (identity and status flags for
\* models, identity and upvotes for collections; the other fields are not modelled)
get_item_metadata(cfg, item) ==
    IF cfg.type = "models"
    THEN [id |-> item.id, status |-> item.status]
    ELSE [id |-> item.id, upvotes |-> item.upvotes]

\* the kinds fetch_extended_metadata waits on: _fetch_likers and
\* _fetch_contributors (gathered) for models, _fetch_upvoters for collections
FetchKinds(type) == IF type = "models" THEN {"likers", "contributors"} ELSE {"upvoters"}

\* range(self.rate_limit)
BatchCap_whole(cfg) == cfg.rate_limit

\* rate_limit // 2
BatchCap(cfg) == cfg.rate_limit \div 2

\* one list for the tasks of every type
ListName_shared(type) == "tasks_models"

\* f"tasks_{task_type}"
ListName(type) == "tasks_" \o type

ItemTypes == {"models", "collections"}
ListNames == {ListName(t) : t \in ItemTypes}

\* the remote responses at a revision of the detail: the JSON list of the likers
\* endpoint, and the authors of the commits of list_repo_commits, commit by commit
RemoteLikers(rev) ==
    IF rev = 1 THEN <<[user |-> "u1"], [user |-> "u2"], [user |-> "u1"]>>
    ELSE <<[user |-> "u2"], [user |-> "u3"]>>

RemoteCommits(rev) ==
    IF rev = 1 THEN << <<"u1">>, <<"u2", "u1">> >>
    ELSE << <<"u3", "u1">>, <<"u3">>, <<"u2">> >>

\* [liker['user'] for liker in likers]
fetch_likers(response) == [x \in 1..Len(response) |-> response[x].user]

\* list(dict.fromkeys(...)): the first occurrences, in order
RECURSIVE fromkeys(_, _)
fromkeys(seq, seen) ==
    IF seq = <<>> THEN <<>>
    ELSE IF Head(seq) \in seen THEN fromkeys(Tail(seq), seen)
    ELSE <<Head(seq)>> \o fromkeys(Tail(seq), seen \cup {Head(seq)})

\* author for commit in commits for author in commit.authors
RECURSIVE flatten(_)
flatten(commits) == IF commits = <<>> THEN <<>> ELSE Head(commits) \o flatten(Tail(commits))

fetch_contributors(commits) == fromkeys(flatten(commits), {})

\* _fetch_upvoters reads self.session, which no scraper sets: the AttributeError is
\* caught and the result is []
fetch_upvoters(response) == <<>>

\* the list a kind's fetch returns at a revision of the remote detail
fetch_ids(k, rev) ==
    IF k = "likers" THEN fetch_likers(RemoteLikers(rev))
    ELSE IF k = "contributors" THEN fetch_contributors(RemoteCommits(rev))
    ELSE fetch_upvoters(RemoteLikers(rev))

\* ------------------------------------------------------------------ Redis list
\* a push at the end the pops take from
LPUSH_at_right(l, x) == l \o <<x>>

LPUSH(l, x) == <<x>> \o l

\* a pop at the end the pushes go to
RPOP_at_left(l) ==
    IF l = <<>> THEN [value |-> <<>>, rest |-> l]
    ELSE [value |-> <<Head(l)>>, rest |-> Tail(l)]

\* a pop that reads the last element and leaves it in the list
RPOP_keeps(l) ==
    IF l = <<>> THEN [value |-> <<>>, rest |-> l]
    ELSE [value |-> <<l[Len(l)]>>, rest |-> l]

\* RPOP: [value, rest]; value is <<>> (nil) on an empty list
RPOP(l) ==
    IF l = <<>> THEN [value |-> <<>>, rest |-> l]
    ELSE [value |-> <<l[Len(l)]>>, rest |-> SubSeq(l, 1, Len(l) - 1)]

\* the task id built from the item id first
NewTask_id_first(item_id, task_type, gen) ==
    [tid |-> item_id \o ":" \o task_type,
     iid |-> item_id,
     type |-> task_type,
     status |-> "pending",
     retry_count |-> 0,
     created_at |-> now,
     seq |-> hist.npush[ListName(task_type)] + 1,
     gen |-> gen]

\* create_task(item_id, task_type): the task pushed and the list after the push.
\* seq (the number of the push on its list) and gen (the number of earlier
\* attempts of the same task) are history, not part of the payload.
NewTask(item_id, task_type, gen) ==
    [tid |-> task_type \o ":" \o item_id,
     iid |-> item_id,
     type |-> task_type,
     status |-> "pending",
     retry_count |-> 0,
     created_at |-> now,
     seq |-> hist.npush[ListName(task_type)] + 1,
     gen |-> gen]

\* a task that an earlier run of a scraper of this type pushed and never popped
\* (the lists outlive the processes)
Leftover(task_type) ==
    [tid |-> task_type \o ":" \o "a",
     iid |-> "a",
     type |-> task_type,
     status |-> "pending",
     retry_count |-> 0,
     created_at |-> 0,
     seq |-> 1,
     gen |-> 0]

\* the record the earlier run wrote for the item of its leftover task, before it
\* pushed the task
EarlierRecords(task_type) ==
    LET item == [id |-> Leftover(task_type).iid]
    IN  [x \in {item.id} |-> [basic_metadata |-> item, extended_metadata |-> [present |-> FALSE, rev |-> 0],
                               status |-> [phase |-> "basic"]]]

create_task(item_id, task_type, gen) ==
    LET name == ListName(task_type)
    IN  /\ lists' = [lists EXCEPT ![name] = LPUSH(@, NewTask(item_id, task_type, gen))]
        /\ hist' = [hist EXCEPT !.npush[name] = @ + 1]

\* ------------------------------------------------------------------ Mongo
NoExt == [present |-> FALSE, rev |-> 0]

\* the whole document replaced (replace_one): extended_metadata is dropped
UpsertBasic_replacing(docs, item) ==
    [x \in DOMAIN docs \cup {item.id} |->
        IF x = item.id
        THEN [basic_metadata |-> item, extended_metadata |-> NoExt, status |-> [phase |-> "basic"]]
        ELSE docs[x]]

\* update_one({"_id": id}, {"$set": {"basic_metadata": item, "status": {...}}}, upsert=True)
UpsertBasic(docs, item) ==
    LET id == item.id
        ext == IF id \in DOMAIN docs THEN docs[id].extended_metadata ELSE NoExt
        doc == [basic_metadata |-> item, extended_metadata |-> ext,
                status |-> [phase |-> "basic"]]
    IN  [x \in DOMAIN docs \cup {id} |-> IF x = id THEN doc ELSE docs[x]]

\* bulk_write with the test of operations negated: nothing is written
bulk_upsert_basic_metadata_unwritten(docs, items) == docs

RECURSIVE bulk_upsert_basic_metadata(_, _)
bulk_upsert_basic_metadata(docs, items) ==
    IF items = <<>> THEN docs
    ELSE bulk_upsert_basic_metadata(UpsertBasic(docs, Head(items)), Tail(items))

\* the update with $push in place of $set: the new metadata is appended to what
\* the document holds
upsert_extended_metadata_push(docs, id, metadata) ==
    IF id \in DOMAIN docs
    THEN [docs EXCEPT ![id] =
            [@ EXCEPT !.extended_metadata =
                        IF @.present
                        THEN [metadata EXCEPT
                                !.rev = docs[id].extended_metadata.rev + @,
                                !.ids = [k \in DOMAIN @ |->
                                           docs[id].extended_metadata.ids[k] \o @[k]]]
                        ELSE metadata,
                      !.status = [phase |-> "extended"]]]
    ELSE docs

\* the update with upsert=True: a missing document is created from the $set
upsert_extended_metadata_upserting(docs, id, metadata) ==
    [x \in DOMAIN docs \cup {id} |->
        IF x # id THEN docs[x]
        ELSE IF id \in DOMAIN docs
        THEN [docs[id] EXCEPT !.extended_metadata = metadata, !.status = [phase |-> "extended"]]
        ELSE [extended_metadata |-> metadata, status |-> [phase |-> "extended"]]]

\* update_one({"_id": id}, {"$set": {"extended_metadata": m, "status.phase": "extended", ...}})
\* without upsert: a missing document stays missing
upsert_extended_metadata(docs, id, metadata) ==
    IF id \in DOMAIN docs
    THEN [docs EXCEPT ![id] = [@ EXCEPT !.extended_metadata = metadata,
                                        !.status = [phase |-> "extended"]]]
    ELSE docs

\* a call to Mongo or to the remote detail endpoint raises
Fault ==
    /\ hist.faults < config.faults
    /\ hist' = [hist EXCEPT !.faults = @ + 1]

\* a call to Redis raises (the server is unreachable)
RedisFault ==
    /\ hist.rfaults < config.rfaults
    /\ hist' = [hist EXCEPT !.rfaults = @ + 1]

\* ------------------------------------------------------------- phase 1: scrape()
P1Off == [pc |-> "off", pos |-> 1, batch |-> <<>>, i |-> 0]
P1Begin == [pc |-> "start", pos |-> 1, batch |-> <<>>, i |-> 0]

Min(a, b) == IF a <= b THEN a ELSE b

\* scrape() without its 'if batch:' after the loop: a remainder is not flushed
ScrapeLoop_full_only(pos) ==
    LET yielded == list_items(config)
        batch == SubSeq(yielded, pos, pos + config.batch_size - 1)
    IN  IF Len(yielded) - pos + 1 < config.batch_size
        THEN [pc |-> "done", pos |-> pos, batch |-> <<>>, i |-> 0]
        ELSE IF \E x \in 1..Len(batch) : metadata_raises(config, batch[x])
        THEN [pc |-> "failed", pos |-> pos + config.batch_size, batch |-> batch, i |-> 0]
        ELSE [pc |-> "upsert", pos |-> pos + config.batch_size, batch |-> batch, i |-> 0]

\* The loop of scrape() from the pos-th yielded summary on, up to its next await:
\* a batch of batch_size items (or the non-empty remainder) goes to _batch_record,
\* whose first await is the bulk upsert; with nothing left the coroutine is done.
\* _batch_record builds item_metadata before its try: an item whose
\* get_item_metadata raises makes _batch_record, and scrape() with it, raise.
ScrapeLoop(pos) ==
    LET yielded == list_items(config)
        n == Min(config.batch_size, Len(yielded) - pos + 1)
        batch == SubSeq(yielded, pos, pos + n - 1)
    IN  IF batch = <<>>
        THEN [pc |-> "done", pos |-> pos, batch |-> <<>>, i |-> 0]
        ELSE IF \E x \in 1..Len(batch) : metadata_raises(config, batch[x])
        THEN [pc |-> "failed", pos |-> pos + n, batch |-> batch, i |-> 0]
        ELSE [pc |-> "upsert", pos |-> pos + n, batch |-> batch, i |-> 0]

\* the flag set before the loop over list_items()
MarkBasic_at_start(p, next) == scraper' = [scraper EXCEPT ![p].basic_stage = TRUE]

\* if not self._basic_stage: self._basic_stage = True, when scrape() is through
MarkBasic(p, next) ==
    scraper' = IF next.pc = "done" THEN [scraper EXCEPT ![p].basic_stage = TRUE] ELSE scraper

\* scrape() starts: list_items() is entered
P1Start(p) ==
    /\ ph1[p].pc = "start"
    /\ LET next == IF list_raises(config)
                   THEN [ph1[p] EXCEPT !.pc = "failed"]
                   ELSE ScrapeLoop(1)
       IN  /\ ph1' = [ph1 EXCEPT ![p] = next]
           /\ MarkBasic(p, next)
    /\ UNCHANGED <<clockVars, limiterVars, config, graphVars, lists, store, ph2, remote, hist>>

\* the tasks of the batch enqueued although its bulk upsert raised
BatchFailed_enqueues(p) == [ph1[p] EXCEPT !.pc = "enqueue", !.i = 1]

\* except Exception in _batch_record: the error is logged, _record_extended_tasks
\* is not reached and scrape() goes on after the batch
BatchFailed(p) == ScrapeLoop(ph1[p].pos)

\* _batch_record: the bulk upsert returns.  On success _record_extended_tasks
\* starts; on failure the error is logged and scrape() goes on.
P1Upsert(p) ==
    /\ ph1[p].pc = "upsert"
    /\ \E ok \in BOOLEAN :
        IF ok
        THEN LET item_metadata == [x \in 1..Len(ph1[p].batch) |->
                                      get_item_metadata(config, ph1[p].batch[x])]
             IN  /\ store' = [store EXCEPT ![item_type(config)] =
                                 bulk_upsert_basic_metadata(@, item_metadata)]
                 /\ ph1' = [ph1 EXCEPT ![p].pc = "enqueue", ![p].i = 1]
                 /\ UNCHANGED scraper
                 /\ UNCHANGED hist
        ELSE LET next == BatchFailed(p)
             IN  /\ Fault
                 /\ ph1' = [ph1 EXCEPT ![p] = next]
                 /\ MarkBasic(p, next)
                 /\ UNCHANGED store
    /\ UNCHANGED <<clockVars, limiterVars, config, graphVars, lists, ph2, remote>>

\* _record_extended_tasks: create_task for the i-th item of the batch returns, or
\* raises and the error is logged; the loop goes on with the next item
P1Enqueue(p) ==
    /\ ph1[p].pc = "enqueue"
    /\ \E ok \in BOOLEAN :
        IF ok
        THEN create_task(get_item_id(config, ph1[p].batch[ph1[p].i]), item_type(config), 0)
        ELSE RedisFault /\ UNCHANGED lists
    /\ LET next == IF ph1[p].i < Len(ph1[p].batch)
                   THEN [ph1[p] EXCEPT !.i = @ + 1]
                   ELSE ScrapeLoop(ph1[p].pos)
       IN  /\ ph1' = [ph1 EXCEPT ![p] = next]
           /\ MarkBasic(p, next)
    /\ UNCHANGED <<clockVars, limiterVars, config, graphVars, store, ph2, remote>>

\* ------------------------------------------- phase 2: process_extended_tasks()
P2Begin == [pc |-> "start", wake |-> 0, tasks |-> <<>>, jobs |-> <<>>]

\* _process_single_task(task) as gather() starts it.  CollectionScraper calls
\* get_collection before it waits for admission.
NewJob(task) ==
    [task |-> task,
     pc |-> IF config.type = "collections" THEN "detail" ELSE "fetch",
     rl |-> [k \in FetchKinds(config.type) |-> [pc |-> "poll", wake |-> 0, ids |-> <<>>]],
     meta |-> NoExt]

\* the loop with the test of _basic_stage negated
AfterDrain_negated(tasks, basic_stage) ==
    IF tasks = <<>> /\ ~basic_stage
    THEN [pc |-> "done", wake |-> 0, tasks |-> <<>>, jobs |-> <<>>]
    ELSE IF tasks = <<>>
    THEN [pc |-> "sleep", wake |-> now + 2, tasks |-> <<>>, jobs |-> <<>>]
    ELSE [pc |-> "gather", wake |-> 0, tasks |-> tasks,
          jobs |-> [x \in 1..Len(tasks) |-> NewJob(tasks[x])]]

\* the loop ending on the first poll that drains nothing, whatever _basic_stage is
AfterDrain_unconditional(tasks, basic_stage) ==
    IF tasks = <<>>
    THEN [pc |-> "done", wake |-> 0, tasks |-> <<>>, jobs |-> <<>>]
    ELSE [pc |-> "gather", wake |-> 0, tasks |-> tasks,
          jobs |-> [x \in 1..Len(tasks) |-> NewJob(tasks[x])]]

\* the rest of one iteration of the while loop once the draining is over
AfterDrain(tasks, basic_stage) ==
    IF tasks = <<>> /\ basic_stage
    THEN [pc |-> "done", wake |-> 0, tasks |-> <<>>, jobs |-> <<>>]
    ELSE IF tasks = <<>>
    THEN [pc |-> "sleep", wake |-> now + 2, tasks |-> <<>>, jobs |-> <<>>]
    ELSE [pc |-> "gather", wake |-> 0, tasks |-> tasks,
          jobs |-> [x \in 1..Len(tasks) |-> NewJob(tasks[x])]]

\* the top of the while loop: for _ in range(self.rate_limit // 2) awaits get_task,
\* and does not run at all when rate_limit // 2 = 0
LoopTop(basic_stage) ==
    IF BatchCap(config) > 0
    THEN [pc |-> "poll", wake |-> 0, tasks |-> <<>>, jobs |-> <<>>]
    ELSE AfterDrain(<<>>, basic_stage)

MarkExtended(p, next) ==
    scraper' = IF next.pc = "done" THEN [scraper EXCEPT ![p].extended_stage = TRUE] ELSE scraper

P2Start(p) ==
    /\ ph2[p].pc = "start"
    /\ LET next == LoopTop(scraper[p].basic_stage)
       IN  /\ ph2' = [ph2 EXCEPT ![p] = next]
           /\ MarkExtended(p, next)
    /\ UNCHANGED <<clockVars, limiterVars, config, graphVars, lists, store, ph1, remote, hist>>

\* get_task returns: the task at the right end of the list, or None
get_task(p) ==
    LET name == ListName(item_type(config))
        r == RPOP(lists[name])
        tasks == ph2[p].tasks \o r.value
        next == IF r.value # <<>> /\ Len(tasks) < BatchCap(config)
                THEN [ph2[p] EXCEPT !.tasks = tasks]
                ELSE AfterDrain(tasks, scraper[p].basic_stage)
    IN  /\ lists' = [lists EXCEPT ![name] = r.rest]
        /\ hist' = IF r.value = <<>> THEN hist
                   ELSE [hist EXCEPT !.popped[name] = Append(@, r.value[1].seq)]
        /\ ph2' = [ph2 EXCEPT ![p] = next]
        /\ MarkExtended(p, next)

\* the exception handled as an empty pop
Abort_swallowed(r) == [r EXCEPT !.pc = "sleep", !.wake = now + 2]

\* an exception leaves process_extended_tasks, which has no handler around
\* get_task and none around gather
Abort(r) == [r EXCEPT !.pc = "failed"]

\* get_task returns, or raises
P2Pop(p) ==
    /\ ph2[p].pc = "poll"
    /\ \E ok \in BOOLEAN :
        IF ok
        THEN get_task(p)
        ELSE /\ RedisFault
             /\ ph2' = [ph2 EXCEPT ![p] = Abort(@)]
             /\ UNCHANGED <<lists, scraper>>
    /\ UNCHANGED <<clockVars, limiterVars, config, graphVars, store, ph1, remote>>

\* asyncio.sleep(2) is over
P2Wake(p) ==
    /\ ph2[p].pc = "sleep"
    /\ now >= ph2[p].wake
    /\ LET next == LoopTop(scraper[p].basic_stage)
       IN  /\ ph2' = [ph2 EXCEPT ![p] = next]
           /\ MarkExtended(p, next)
    /\ UNCHANGED <<clockVars, limiterVars, config, graphVars, lists, store, ph1, remote, hist>>

\* the except branch going on to the upsert with what the attempt has
OnError_persists(job) == [job EXCEPT !.pc = "upsert", !.task.retry_count = @ + 1]

\* the except branch re-raising
OnError_reraises(job) == [job EXCEPT !.pc = "raised"]

\* the except branch of _process_single_task: the local retry_count is raised and
\* create_task is awaited, or the task is given up
OnError(job) ==
    IF job.task.retry_count < 3
    THEN [job EXCEPT !.pc = "requeue", !.task.retry_count = @ + 1]
    ELSE [job EXCEPT !.pc = "fin"]

\* CollectionScraper.fetch_extended_metadata: get_collection(item_id) returns or raises
JobDetail(p, j) ==
    /\ ph2[p].pc = "gather"
    /\ j \in 1..Len(ph2[p].jobs)
    /\ ph2[p].jobs[j].pc = "detail"
    /\ \E ok \in BOOLEAN :
        IF ok
        THEN /\ ph2' = [ph2 EXCEPT ![p].jobs[j].pc = "fetch"]
             /\ UNCHANGED hist
        ELSE /\ Fault
             /\ ph2' = [ph2 EXCEPT ![p].jobs[j] = OnError(@)]
    /\ UNCHANGED <<clockVars, limiterVars, config, graphVars, lists, store, scraper, ph1, remote>>

\* _fetch_<kind>: one poll of wait_for_rate_limit(kind, self.rate_limit).  A Redis
\* error leaves _fetch_<kind> and fetch_extended_metadata and is handled by
\* _process_single_task.  Admitted, the list is fetched (an error or a status
\* other than 200 gives []); when every kind is in, fetch_extended_metadata
\* returns and the upsert is awaited.
JobPoll(p, j, k) ==
    /\ ph2[p].pc = "gather"
    /\ j \in 1..Len(ph2[p].jobs)
    /\ ph2[p].jobs[j].pc = "fetch"
    /\ k \in DOMAIN ph2[p].jobs[j].rl
    /\ ph2[p].jobs[j].rl[k].pc = "poll"
    /\ \E up \in BOOLEAN, ok \in BOOLEAN :
        LET job == ph2[p].jobs[j]
            r == script(zsets[RLKey(k)], now, rate_limit_window, config.rate_limit)
            ids == IF ok THEN fetch_ids(k, remote) ELSE <<>>
            rl == [job.rl EXCEPT ![k] = IF r.ret = 1
                                        THEN [pc |-> "sleep", wake |-> now + 1, ids |-> <<>>]
                                        ELSE [pc |-> "done", wake |-> 0, ids |-> ids]]
            fetched == \A x \in DOMAIN rl : rl[x].pc = "done"
        IN  IF ~up
            THEN /\ ok
                 /\ RedisFault
                 /\ ph2' = [ph2 EXCEPT ![p].jobs[j] = OnError(job)]
                 /\ UNCHANGED zsets
            ELSE /\ ok \/ (r.ret = 0 /\ hist.faults < config.faults)
                 /\ zsets' = [zsets EXCEPT ![RLKey(k)] = r.z]
                 /\ ph2' = [ph2 EXCEPT ![p].jobs[j] =
                              IF fetched
                              THEN [job EXCEPT !.rl = rl, !.pc = "upsert",
                                               !.meta = [present |-> TRUE, rev |-> remote,
                                                         ids |-> [x \in DOMAIN rl |-> rl[x].ids]]]
                              ELSE [job EXCEPT !.rl = rl]]
                 /\ hist' = [hist EXCEPT
                                !.faults = IF ok THEN @ ELSE @ + 1,
                                !.fetched[job.task.iid] = IF fetched THEN remote ELSE @]
    /\ UNCHANGED <<clockVars, ncalls, admitLog, lastCall, waiter>>
    /\ UNCHANGED <<config, graphVars, lists, store, scraper, ph1, remote>>

\* asyncio.sleep(1) of wait_for_rate_limit is over
JobWake(p, j, k) ==
    /\ ph2[p].pc = "gather"
    /\ j \in 1..Len(ph2[p].jobs)
    /\ ph2[p].jobs[j].pc = "fetch"
    /\ k \in DOMAIN ph2[p].jobs[j].rl
    /\ ph2[p].jobs[j].rl[k].pc = "sleep"
    /\ now >= ph2[p].jobs[j].rl[k].wake
    /\ ph2' = [ph2 EXCEPT ![p].jobs[j].rl[k] = [pc |-> "poll", wake |-> 0, ids |-> <<>>]]
    /\ UNCHANGED <<clockVars, limiterVars, config, graphVars, lists, store, scraper, ph1, remote, hist>>

\* mongo_client.upsert_extended_metadata(task["type"], task["iid"], ...) returns or raises
JobUpsert(p, j) ==
    /\ ph2[p].pc = "gather"
    /\ j \in 1..Len(ph2[p].jobs)
    /\ ph2[p].jobs[j].pc = "upsert"
    /\ LET job == ph2[p].jobs[j]
       IN  \E ok \in BOOLEAN :
            IF ok
            THEN /\ store' = [store EXCEPT ![job.task.type] =
                                upsert_extended_metadata(@, job.task.iid, job.meta)]
                 /\ ph2' = [ph2 EXCEPT ![p].jobs[j].pc = "fin"]
                 /\ UNCHANGED hist
            ELSE /\ Fault
                 /\ ph2' = [ph2 EXCEPT ![p].jobs[j] = OnError(job)]
                 /\ UNCHANGED store
    /\ UNCHANGED <<clockVars, limiterVars, config, graphVars, lists, scraper, ph1, remote>>

\* redis_client.create_task(task["iid"], task["type"]) of the except branch returns,
\* or raises: the exception leaves _process_single_task and gather
JobRequeue(p, j) ==
    /\ ph2[p].pc = "gather"
    /\ j \in 1..Len(ph2[p].jobs)
    /\ ph2[p].jobs[j].pc = "requeue"
    /\ \E ok \in BOOLEAN :
        IF ok
        THEN /\ create_task(ph2[p].jobs[j].task.iid, ph2[p].jobs[j].task.type,
                            ph2[p].jobs[j].task.gen + 1)
             /\ ph2' = [ph2 EXCEPT ![p].jobs[j].pc = "fin"]
        ELSE /\ RedisFault
             /\ ph2' = [ph2 EXCEPT ![p] = Abort(@)]
             /\ UNCHANGED lists
    /\ UNCHANGED <<clockVars, limiterVars, config, graphVars, store, scraper, ph1, remote>>

\* the loop going on as soon as one _process_single_task is through
GatherDone_first_completed(p) ==
    /\ ph2[p].pc = "gather"
    /\ \E j \in 1..Len(ph2[p].jobs) : ph2[p].jobs[j].pc = "fin"
    /\ LET next == LoopTop(scraper[p].basic_stage)
       IN  /\ ph2' = [ph2 EXCEPT ![p] = next]
           /\ MarkExtended(p, next)
    /\ UNCHANGED <<clockVars, limiterVars, config, graphVars, lists, store, ph1, remote, hist>>

\* asyncio.gather returns: every _process_single_task is through
GatherDone(p) ==
    /\ ph2[p].pc = "gather"
    /\ \A j \in 1..Len(ph2[p].jobs) : ph2[p].jobs[j].pc = "fin"
    /\ LET next == LoopTop(scraper[p].basic_stage)
       IN  /\ ph2' = [ph2 EXCEPT ![p] = next]
           /\ MarkExtended(p, next)
    /\ UNCHANGED <<clockVars, limiterVars, config, graphVars, lists, store, ph1, remote, hist>>

\* the process is terminated (shutdown is abrupt): what it held in memory is gone
ProcessKill(p) ==
    /\ config.kills
    /\ ph2[p].pc \notin {"done", "killed", "failed"}
    /\ ph1' = [ph1 EXCEPT ![p] = [P1Off EXCEPT !.pc = "killed"]]
    /\ ph2' = [ph2 EXCEPT ![p].pc = "killed"]
    /\ UNCHANGED <<clockVars, limiterVars, config, graphVars, lists, store, scraper, remote, hist>>

\* An exception that left scrape() or process_extended_tasks() leaves gather and
\* run_scrapers: asyncio.run cancels the coroutine of the process that still runs.
RunAbort(p) ==
    /\ ph1[p].pc = "failed" \/ ph2[p].pc = "failed"
    /\ \/ ph1[p].pc \notin {"off", "done", "failed", "killed"}
       \/ ph2[p].pc \notin {"done", "failed", "killed"}
    /\ ph1' = [ph1 EXCEPT ![p] = IF @.pc \in {"off", "done", "failed", "killed"} THEN @
                                  ELSE [P1Off EXCEPT !.pc = "killed"]]
    /\ ph2' = [ph2 EXCEPT ![p].pc = IF @ \in {"done", "failed", "killed"} THEN @ ELSE "killed"]
    /\ UNCHANGED <<clockVars, limiterVars, config, graphVars, lists, store, scraper, remote, hist>>

\* the remote detail of the items changes
RemoteChange ==
    /\ config.changes
    /\ remote < MaxRev
    /\ remote' = remote + 1
    /\ UNCHANGED <<clockVars, limiterVars, config, graphVars, lists, store, scraper, ph1, ph2, hist>>

\* ------------------------------------------------------------------ the runs
ModelCatalog ==
    << Summary("a", {"nlp", "pytorch"}, Clean, 0),
       Summary("b", {"nlp"}, Private, 0) >>

\* list_collections is asked per stored item: a collection holding two of them is
\* listed twice
CollectionCatalog ==
    << ListedFor("models/a", Summary("a", {}, Clean, 150)),
       ListedFor("models/a", Summary("b", {}, Clean, 50)),
       ListedFor("datasets/a", Summary("a", {}, Clean, 150)) >>

\* the second collection listed has an owner mapping without 'name'
OwnerlessCatalog ==
    << ListedFor("models/a", Summary("a", {}, Clean, 150)),
       ListedFor("models/a", [Summary("b", {}, Clean, 150) EXCEPT !.owner_name = FALSE]),
       ListedFor("datasets/a", Summary("a", {}, Clean, 150)) >>

\* second: a second process, started with --resume, works on the same Redis and Mongo;
\* faults: how many calls to Mongo and to the detail endpoint may raise during the run
\* (rfaults: how many calls to Redis); kills: whether processes of the run get
\* terminated; changes: whether the remote detail changes during the run; stored:
\* the ids whose records an earlier, complete run of the same scraper left in the store
Run(type, tags, rate_limit, catalog, second, faults) ==
    [type |-> type, tags |-> tags, rate_limit |-> rate_limit, second |-> second,
     faults |-> faults, rfaults |-> 0,
     kills |-> second, changes |-> (type = "collections"), stored |-> {},
     batch_size |-> BatchSize, min_upvotes |-> default_min_upvotes,
     catalog |-> catalog]

Runs ==
    { Run("models", Tags({"nlp"}), 1, ModelCatalog, FALSE, 1),
      [Run("models", Tags({"nlp"}), 2, ModelCatalog, FALSE, 1) EXCEPT !.batch_size = 1],
      Run("models", Tags({"nlp"}), 2, SubSeq(ModelCatalog, 1, 1), FALSE, MaxFaults),
      Run("models", NoTags, 2, ModelCatalog, FALSE, 1),
      Run("collections", NoTags, 2, CollectionCatalog, TRUE, 0),
      Run("collections", NoTags, 4, CollectionCatalog, FALSE, 1),
      [Run("models", Tags({"nlp"}), 2, SubSeq(ModelCatalog, 1, 1), FALSE, 1)
          EXCEPT !.rfaults = 1],
      [Run("models", Tags({"nlp"}), 2, ModelCatalog, FALSE, 0) EXCEPT !.rfaults = 1],
      Run("collections", NoTags, 2, OwnerlessCatalog, FALSE, 0),
      [Run("collections", NoTags, 2, CollectionCatalog, FALSE, 0)
          EXCEPT !.min_upvotes = 50, !.stored = {"a"}, !.changes = FALSE] }

NoHist ==
    [npush |-> [n \in ListNames |-> 0],
     popped |-> [n \in ListNames |-> <<>>],
     fetched |-> [i \in Ids |-> 0],
     faults |-> 0,
     rfaults |-> 0]

\* ------------------------------------------------------------ graph migration
\* A Dgraph node is [type, name]; its uid is its position in dgraph.nodes, the
\* order of creation. A deleted node keeps its uid and loses every predicate.
Gone == [type |-> "", name |-> ""]
NoGraph == [nodes |-> <<>>, edges |-> {}]
MigratorOff == [pc |-> "off", todo |-> {}, users |-> <<>>, i |-> 0, total_deleted |-> 0]

\* a stored model: status is the set of its truthy flags, likes is <<>> for None
Doc(id, status, likes, author, base_model, likers, contributors) ==
    [basic_metadata |-> [id |-> id, status |-> status, likes |-> likes, author |-> author,
                         card_data |-> [base_model |-> base_model]],
     extended_metadata |-> [likers |-> likers, contributors |-> contributors]]

NoBase == [kind |-> "none", value |-> <<>>]
BaseStr(name) == [kind |-> "str", value |-> name]
BaseList(names) == [kind |-> "list", value |-> names]

should_skip(status) ==
    "private" \in status \/ "disabled" \in status \/ "gated" \in status

safe_int_parse(value) == IF value = <<>> THEN 0 ELSE value[1]

get_node_uid(g, type_name, name) ==
    LET found == {u \in 1..Len(g.nodes) : g.nodes[u] = [type |-> type_name, name |-> name]}
    IN  IF found = {} THEN 0 ELSE CHOOSE u \in found : \A v \in found : u <= v

upsert(g, type_name, name) ==
    IF get_node_uid(g, type_name, name) # 0 THEN g
    ELSE [g EXCEPT !.nodes = Append(@, [type |-> type_name, name |-> name])]

upsert_model(g, name) == upsert(g, "Model", name)

upsert_user(g, name) == upsert(g, "User", name)

RECURSIVE upsert_each(_, _, _)
upsert_each(g, type_name, names) ==
    IF names = <<>> THEN g
    ELSE upsert_each(upsert(g, type_name, Head(names)), type_name, Tail(names))

Rel(from_name, from_type, to_name, to_type, predicate) ==
    [from_name |-> from_name, from_type |-> from_type,
     to_name |-> to_name, to_type |-> to_type, predicate |-> predicate]

handle_author_relationship(g, author, target_name, target_type) ==
    IF author = "" THEN <<>>
    ELSE <<Rel(author,
               IF get_node_uid(g, "Organization", author) = 0 THEN "User" ELSE "Organization",
               target_name, target_type, "author_of")>>

handle_likers(likers, target_name, target_type) ==
    [x \in 1..Len(likers) |-> Rel(likers[x], "User", target_name, target_type, "like")]

handle_contributors(contributors, target_name, target_type) ==
    [x \in 1..Len(contributors) |->
        Rel(contributors[x], "User", target_name, target_type, "contribute_to")]

base_model_names(base_models) ==
    IF base_models.kind = "str" THEN <<base_models.value>> ELSE base_models.value

handle_base_models(model_name, base_models) ==
    LET names == base_model_names(base_models)
    IN  [x \in 1..Len(names) |-> Rel(model_name, "Model", names[x], "Model", "based_on")]

RECURSIVE create_relationships(_, _)
create_relationships(g, relationships) ==
    IF relationships = <<>> THEN g
    ELSE LET rel == Head(relationships)
             from_uid == get_node_uid(g, rel.from_type, rel.from_name)
             to_uid == get_node_uid(g, rel.to_type, rel.to_name)
             h == IF from_uid = 0 \/ to_uid = 0 THEN g
                  ELSE [g EXCEPT !.edges = @ \cup {[from |-> from_uid,
                                                    predicate |-> rel.predicate,
                                                    to |-> to_uid]}]
         IN  create_relationships(h, Tail(relationships))

\* the body of the loop of ModelMigrator.migrate for one document; the calls
\* to Dgraph are made in `upto` stages before one of them raises (6: none does)
MigrateStages == 6

migrate_doc(g, doc, upto) ==
    LET basic_metadata == doc.basic_metadata
        extended_metadata == doc.extended_metadata
        name == basic_metadata.id
        author == basic_metadata.author
        base_model == basic_metadata.card_data.base_model
        g1 == upsert_model(g, name)
        g2 == IF author # "" /\ get_node_uid(g1, "Organization", author) = 0
              THEN upsert_user(g1, author) ELSE g1
        g3 == upsert_each(g2, "User", extended_metadata.likers)
        g4 == upsert_each(g3, "User", extended_metadata.contributors)
        g5 == IF base_model.kind # "none"
              THEN upsert_each(g4, "Model", base_model_names(base_model)) ELSE g4
        relationships ==
            handle_author_relationship(g1, author, name, "Model")
            \o handle_likers(extended_metadata.likers, name, "Model")
            \o handle_contributors(extended_metadata.contributors, name, "Model")
            \o (IF base_model.kind # "none" THEN handle_base_models(name, base_model)
                ELSE <<>>)
        g6 == create_relationships(g5, relationships)
    IN  IF should_skip(basic_metadata.status) THEN g
        ELSE IF safe_int_parse(basic_metadata.likes) < 5 THEN g
        ELSE CASE upto = 0 -> g
               [] upto = 1 -> g1
               [] upto = 2 -> g2
               [] upto = 3 -> g3
               [] upto = 4 -> g4
               [] upto = 5 -> g5
               [] OTHER -> g6

count(g, uid, predicate) ==
    Cardinality({e \in g.edges : e.from = uid /\ e.predicate = predicate})

totalInteraction(g, uid) ==
    count(g, uid, "like") + count(g, uid, "upvote")
    + count(g, uid, "follow") + count(g, uid, "member_of")

totalRelation(g, uid) ==
    count(g, uid, "author_of") + count(g, uid, "owner_of") + count(g, uid, "contribute_to")

filteredUsers(g) ==
    SelectSeq([u \in 1..Len(g.nodes) |-> u],
              LAMBDA u : /\ g.nodes[u].type = "User"
                         /\ totalInteraction(g, u) < 10
                         /\ totalRelation(g, u) = 0)

get_filtered_users(g) ==
    LET all == filteredUsers(g)
    IN  SubSeq(all, 1, Min(PageSize, Len(all)))

\* "<uid> * * ." for every uid of the batch
delete_batch(g, batch) ==
    [nodes |-> [u \in 1..Len(g.nodes) |->
                   IF \E x \in 1..Len(batch) : batch[x] = u THEN Gone ELSE g.nodes[u]],
     edges |-> {e \in g.edges : ~\E x \in 1..Len(batch) : batch[x] = e.from}]

\* asyncio.gather(self.model_migrator.migrate(), ...): one document of the cursor
MigrateModel(id, upto) ==
    /\ migrator.pc = "models"
    /\ id \in migrator.todo
    /\ dgraph' = migrate_doc(dgraph, store["models"][id], upto)
    /\ migrator' = [migrator EXCEPT !.todo = @ \ {id}]
    /\ UNCHANGED <<clockVars, limiterVars, config, lists, store, scraper, ph1, ph2, remote, hist>>

\* the cursor is exhausted: delete_single_relation_users() starts
MigrateEnd ==
    /\ migrator.pc = "models"
    /\ migrator.todo = {}
    /\ migrator' = [migrator EXCEPT !.pc = "query"]
    /\ UNCHANGED dgraph
    /\ UNCHANGED <<clockVars, limiterVars, config, lists, store, scraper, ph1, ph2, remote, hist>>

\* users = await self._get_filtered_users(); the query raises when ~ok
GetFilteredUsers(ok) ==
    /\ migrator.pc = "query"
    /\ LET users == get_filtered_users(dgraph)
       IN  migrator' =
             IF ~ok THEN [migrator EXCEPT !.pc = "failed"]
             ELSE IF users = <<>> THEN [migrator EXCEPT !.pc = "done"]
             ELSE [migrator EXCEPT !.pc = "delete", !.users = users, !.i = 0]
    /\ UNCHANGED dgraph
    /\ UNCHANGED <<clockVars, limiterVars, config, lists, store, scraper, ph1, ph2, remote, hist>>

\* one batch of delete_nodes(uids_to_delete); after the last one the loop of
\* delete_single_relation_users counts the uids and queries again
DeleteBatch(ok) ==
    /\ migrator.pc = "delete"
    /\ LET uids == migrator.users
           i == migrator.i
           batch == SubSeq(uids, i + 1, Min(i + DeleteBatchSize, Len(uids)))
       IN  /\ dgraph' = IF ok THEN delete_batch(dgraph, batch) ELSE dgraph
           /\ migrator' =
                IF i + DeleteBatchSize < Len(uids)
                THEN [migrator EXCEPT !.i = i + DeleteBatchSize]
                ELSE [migrator EXCEPT !.pc = "query", !.users = <<>>, !.i = 0,
                                      !.total_deleted = Min(@ + Len(uids), MaxDeleted)]
    /\ UNCHANGED <<clockVars, limiterVars, config, lists, store, scraper, ph1, ph2, remote, hist>>

GraphOff ==
    /\ dgraph = NoGraph
    /\ migrator = MigratorOff

InitIdleLimiter ==
    /\ zsets = [k \in RLKeys |-> {}]
    /\ ncalls = 0
    /\ admitLog = [k \in RLKeys |-> <<>>]
    /\ lastCall = NoCall
    /\ waiter = [w \in Waiters |-> Idle]

\* the record a complete earlier run left for id: both phases went through, and
\* the summary had fewer upvotes then
Stored(cfg, id) ==
    LET listed == cfg.catalog[CHOOSE x \in 1..Len(cfg.catalog) : cfg.catalog[x].id = id]
        item == [listed EXCEPT !.upvotes = @ - 1]
    IN  [basic_metadata |-> get_item_metadata(cfg, item),
         extended_metadata |-> [present |-> TRUE, rev |-> 1,
                                ids |-> [k \in FetchKinds(cfg.type) |-> fetch_ids(k, 1)]],
         status |-> [phase |-> "extended"]]

InitPipeline(cfg) ==
    /\ config = cfg
    /\ lists = [n \in ListNames |-> IF n = ListName(cfg.type) THEN <<>>
                                 ELSE <<Leftover(CHOOSE t \in ItemTypes : ListName(t) = n)>>]
    /\ store = [t \in ItemTypes |-> IF t = cfg.type THEN [id \in cfg.stored |-> Stored(cfg, id)]
                                   ELSE EarlierRecords(t)]
    /\ scraper = [p \in Procs |-> [basic_stage |-> FALSE, extended_stage |-> FALSE]]
    /\ ph1 = [p \in Procs |-> IF Resume(p) THEN P1Off ELSE P1Begin]
    /\ ph2 = [p \in Procs |-> IF Resume(p) /\ ~cfg.second
                                THEN [P2Begin EXCEPT !.pc = "killed"]
                                ELSE P2Begin]
    /\ remote = 1
    /\ hist = [NoHist EXCEPT !.npush = [n \in ListNames |-> Len(lists[n])],
                              !.fetched = [i \in Ids |-> IF i \in cfg.stored THEN 1 ELSE 0]]

Init ==
    /\ now = 0
    /\ ticks = 0
    /\ InitIdleLimiter
    /\ \E cfg \in Runs : InitPipeline(cfg)
    /\ GraphOff

Next ==
    \/ \E p \in Procs : P1Start(p)
    \/ \E p \in Procs : P1Upsert(p)
    \/ \E p \in Procs : P1Enqueue(p)
    \/ \E p \in Procs : P2Start(p)
    \/ \E p \in Procs : P2Pop(p)
    \/ \E p \in Procs : P2Wake(p)
    \/ \E p \in Procs, j \in 1..MaxJobs : JobDetail(p, j)
    \/ \E p \in Procs, j \in 1..MaxJobs, k \in Kinds : JobPoll(p, j, k)
    \/ \E p \in Procs, j \in 1..MaxJobs, k \in Kinds : JobWake(p, j, k)
    \/ \E p \in Procs, j \in 1..MaxJobs : JobUpsert(p, j)
    \/ \E p \in Procs, j \in 1..MaxJobs : JobRequeue(p, j)
    \/ \E p \in Procs : GatherDone(p)
    \/ \E p \in Procs : ProcessKill(p)
    \/ \E p \in Procs : RunAbort(p)
    \/ RemoteChange
    \/ \E d \in TickSteps : Tick(d)

Spec == Init /\ [][Next]_vars

\* the limiter alone: no scraper process runs, callers wait on the shared keys
InitLimiter ==
    /\ now = 0
    /\ ticks = 0
    /\ InitIdleLimiter
    /\ config = Run("models", Tags({"nlp"}), 2, <<>>, FALSE, 0)
    /\ lists = [n \in ListNames |-> <<>>]
    /\ store = [t \in ItemTypes |-> <<>>]
    /\ scraper = [p \in Procs |-> [basic_stage |-> FALSE, extended_stage |-> FALSE]]
    /\ ph1 = [p \in Procs |-> P1Off]
    /\ ph2 = [p \in Procs |-> [P2Begin EXCEPT !.pc = "killed"]]
    /\ remote = 1
    /\ hist = NoHist
    /\ GraphOff

NextLimiter ==
    \/ \E w \in Waiters, k \in WaitKinds, l \in Limits : WaitCall(w, k, l)
    \/ \E w \in Waiters : WaitPoll(w)
    \/ \E w \in Waiters : WaitWake(w)
    \/ \E w \in Waiters : WaitReturn(w)
    \/ \E d \in TickSteps : Tick(d)

SpecLimiter == InitLimiter /\ [][NextLimiter]_vars

\* A process started with --resume on a queue that outlived its store: the list
\* holds the tasks of two items, pushed by an earlier run, and the store holds the
\* record of the first only (the database was set up anew in between).
Pending(item_id, task_type, seq) ==
    [tid |-> task_type \o ":" \o item_id,
     iid |-> item_id,
     type |-> task_type,
     status |-> "pending",
     retry_count |-> 0,
     created_at |-> 0,
     seq |-> seq,
     gen |-> 0]

InitOrphan ==
    /\ now = 0
    /\ ticks = 0
    /\ InitIdleLimiter
    /\ config = [Run("models", Tags({"nlp"}), 2, ModelCatalog, TRUE, 1) EXCEPT !.kills = FALSE]
    /\ lists = [n \in ListNames |-> IF n = ListName(config.type)
                                 THEN <<Pending("b", config.type, 2), Pending("a", config.type, 1)>>
                                 ELSE <<>>]
    /\ store = [t \in ItemTypes |-> IF t = config.type
                                   THEN UpsertBasic(<<>>, get_item_metadata(config, config.catalog[1]))
                                   ELSE <<>>]
    /\ scraper = [p \in Procs |-> [basic_stage |-> FALSE, extended_stage |-> FALSE]]
    /\ ph1 = [p \in Procs |-> P1Off]
    /\ ph2 = [p \in Procs |-> IF Resume(p) THEN P2Begin ELSE [P2Begin EXCEPT !.pc = "killed"]]
    /\ remote = 1
    /\ hist = [NoHist EXCEPT !.npush = [n \in ListNames |-> Len(lists[n])]]
    /\ GraphOff

NextOrphan ==
    \/ \E p \in Procs : P2Start(p)
    \/ \E p \in Procs : P2Pop(p)
    \/ \E p \in Procs : P2Wake(p)
    \/ \E p \in Procs, j \in 1..MaxJobs, k \in Kinds : JobPoll(p, j, k)
    \/ \E p \in Procs, j \in 1..MaxJobs, k \in Kinds : JobWake(p, j, k)
    \/ \E p \in Procs, j \in 1..MaxJobs : JobUpsert(p, j)
    \/ \E p \in Procs, j \in 1..MaxJobs : JobRequeue(p, j)
    \/ \E p \in Procs : GatherDone(p)
    \/ \E d \in TickSteps : Tick(d)

SpecOrphan == InitOrphan /\ [][NextOrphan]_vars

\* The graph migration alone, from the point where the organizations have been
\* migrated: Mongo holds the models of an earlier harvest, Dgraph the node of an
\* organization.
GraphStores ==
    { "a" :> Doc("a", {}, <<5>>, "u1", BaseStr("b"), <<"u2", "u3", "u4">>, <<>>)
      @@ "b" :> Doc("b", {"gated"}, <<7>>, "o1", NoBase, <<"u2">>, <<>>),
      "a" :> Doc("a", {"private"}, <<9>>, "u1", NoBase, <<"u2">>, <<>>)
      @@ "b" :> Doc("b", {}, <<>>, "u1", BaseStr("a"), <<"u3">>, <<>>),
      "a" :> Doc("a", {}, <<5>>, "o1", BaseList(<<"x", "b">>), <<"u2">>, <<"u3">>)
      @@ "b" :> Doc("b", {}, <<6>>, "", NoBase, <<"u2", "u3", "u4">>, <<>>),
      "a" :> Doc("a", {"disabled"}, <<8>>, "", NoBase, <<>>, <<>>)
      @@ "b" :> Doc("b", {}, <<5>>, "u1", BaseList(<<"a">>), <<"u2", "u3">>, <<"u1">>) }

InitGraph ==
    /\ now = 0
    /\ ticks = 0
    /\ InitIdleLimiter
    /\ config = Run("models", Tags({"nlp"}), 2, <<>>, FALSE, 0)
    /\ lists = [n \in ListNames |-> <<>>]
    /\ store \in {[t \in ItemTypes |-> IF t = "models" THEN docs ELSE <<>>] : docs \in GraphStores}
    /\ scraper = [p \in Procs |-> [basic_stage |-> FALSE, extended_stage |-> FALSE]]
    /\ ph1 = [p \in Procs |-> P1Off]
    /\ ph2 = [p \in Procs |-> [P2Begin EXCEPT !.pc = "killed"]]
    /\ remote = 1
    /\ hist = NoHist
    /\ dgraph = upsert(NoGraph, "Organization", "o1")
    /\ migrator = [MigratorOff EXCEPT !.pc = "models", !.todo = DOMAIN store["models"]]

NextGraph ==
    \/ \E id \in {"a", "b"}, upto \in 0..MigrateStages : MigrateModel(id, upto)
    \/ MigrateEnd
    \/ \E ok \in BOOLEAN : GetFilteredUsers(ok)
    \/ \E ok \in BOOLEAN : DeleteBatch(ok)

SpecGraph == InitGraph /\ [][NextGraph]_vars

\* every coroutine of the migration is scheduled as long as it can run
SpecGraphFair == SpecGraph /\ WF_vars(NextGraph)

\* --------------------------------------------------------------- pipeline claims
TaskList == ListName(item_type(config))
Queued == {lists[TaskList][i] : i \in 1..Len(lists[TaskList])}
Docs == store[item_type(config)]

\* the tasks a process holds: drained, or being processed by gather
Held(p) == {ph2[p].tasks[i] : i \in 1..Len(ph2[p].tasks)}

\* C2: a task whose fetch fails on every attempt is attempted at most 4 times and
\* is not enqueued again after its 4th attempt: no queued or held task has more
\* than 3 failed attempts behind it.
C2_BoundedRetry ==
    /\ \A t \in Queued : t.gen <= 3
    /\ \A p \in Procs : \A t \in Held(p) : t.gen <= 3

\* C3: a listed summary with private, disabled or gated truthy has no record in
\* the store and no task in the queue.
Flagged(s) == s.status.private \/ s.status.disabled \/ s.status.gated

C3_SkipInvariant ==
    \A i \in 1..Len(config.catalog) :
        Flagged(config.catalog[i]) =>
            /\ config.catalog[i].id \notin DOMAIN Docs
            /\ \A t \in Queued : t.iid # config.catalog[i].id

\* C4: with phase 1 complete and the queue empty, the next poll of the loop ends
\* it (a sleeping loop wakes at most one polling interval later), and a loop
\* that is DONE takes no further step.
PollerStep(p) == ph2'[p] # ph2[p] /\ ph2'[p].pc \notin {"killed", "failed"}

C4_Step(p) ==
    /\ (/\ scraper[p].basic_stage
        /\ lists[TaskList] = <<>>
        /\ ph2[p].pc = "poll"
        /\ ph2[p].tasks = <<>>
        /\ PollerStep(p))
       => (ph2'[p].pc = "done" /\ scraper'[p].extended_stage /\ lists' = lists)
    /\ (/\ scraper[p].basic_stage
        /\ ph2[p].pc \in {"sleep", "start"}
        /\ PollerStep(p))
       => ph2'[p].pc = (IF BatchCap(config) > 0 THEN "poll" ELSE "done")
    /\ (ph2[p].pc = "sleep") => (ph2[p].wake <= now + 2)
    /\ (ph2[p].pc = "done") => (ph2'[p] = ph2[p] /\ scraper'[p] = scraper[p])

C4_Termination == [][\A p \in Procs : C4_Step(p)]_vars

\* phase 1 went through, its tasks were processed and the loop ended
C4_Witness ==
    /\ ph2["p1"].pc = "done"
    /\ scraper["p1"].basic_stage
    /\ lists[TaskList] = <<>>
    /\ hist.popped[TaskList] # <<>>

\* C5: a record at phase 'extended' has extended_metadata, and (no fault, no
\* kill, nothing fetched and not yet persisted for the id) that extended_metadata
\* is the result of the latest successful fetch for the id.
InFlight(id) ==
    \E p \in Procs : \E j \in 1..Len(ph2[p].jobs) :
        ph2[p].jobs[j].task.iid = id /\ ph2[p].jobs[j].pc # "fin"

C5_ExtendedIsLatestFetch ==
    \A id \in DOMAIN Docs :
        Docs[id].status.phase = "extended" =>
            /\ Docs[id].extended_metadata.present
            /\ (/\ hist.faults = 0
                /\ \A p \in Procs : ph2[p].pc # "killed" \/ ph2[p].jobs = <<>>
                /\ ~InFlight(id))
               => Docs[id].extended_metadata.rev = hist.fetched[id]

\* C9: push appends at the tail and pop removes at the head: the k-th pop that
\* returns a task returns the k-th task pushed, the list holds the tasks not yet
\* popped in push order, and a pop on the empty list leaves it empty and lets the
\* caller go on.
FifoOrder ==
    \A n \in ListNames :
        /\ \A k \in 1..Len(hist.popped[n]) : hist.popped[n][k] = k
        /\ Len(lists[n]) = hist.npush[n] - Len(hist.popped[n])
        /\ \A j \in 1..Len(lists[n]) : lists[n][j].seq = hist.npush[n] - j + 1

EmptyPop(p) ==
    (ph2[p].pc = "poll" /\ lists[TaskList] = <<>> /\ PollerStep(p))
        => (lists' = lists /\ hist' = hist /\ ph2'[p].pc # "poll")

C9_Fifo == [][FifoOrder' /\ \A p \in Procs : EmptyPop(p)]_vars

\* two tasks were popped in push order while a later push is still queued
C9_Witness ==
    /\ Len(hist.popped[TaskList]) >= 2
    /\ lists[TaskList] # <<>>
    /\ \E p \in Procs : ph2[p].pc = "sleep"

\* C10: no pushed entry is returned by two pops, and an entry that a pop returned
\* is not in the queue any more, whoever holds it and whether or not its holder
\* still runs.
C10_AtMostOnce ==
    \A n \in ListNames :
        /\ \A i, j \in 1..Len(hist.popped[n]) :
               i # j => hist.popped[n][i] # hist.popped[n][j]
        /\ \A i \in 1..Len(hist.popped[n]) : \A j \in 1..Len(lists[n]) :
               lists[n][j].seq # hist.popped[n][i]
        /\ \A p, q \in Procs : \A t \in Held(p) :
               /\ \A j \in 1..Len(lists[n]) : ListName(t.type) = n => lists[n][j].seq # t.seq
               /\ p # q => \A u \in Held(q) : u.seq # t.seq

\* both processes popped a task, and one was terminated while it held its task
C10_Witness ==
    /\ ph2["p2"].pc = "killed"
    /\ Held("p2") # {}
    /\ Held("p1") # {}
    /\ \A j \in 1..Len(ph2["p2"].jobs) : ph2["p2"].jobs[j].pc # "fin"

\* C11: the queue is partitioned by item_type: a push or a pop of a scraper changes
\* only the list "tasks_<item_type>" of its type, every entry of a list was pushed
\* with the type of that list, and a pop returns only tasks of the type asked for.
C11_Partitioned ==
    [][/\ \A n \in DOMAIN lists :
            n # "tasks_" \o item_type(config) => lists'[n] = lists[n]
       /\ \A n \in DOMAIN lists : \A j \in 1..Len(lists'[n]) :
            "tasks_" \o lists'[n][j].type = n
       /\ \A p \in Procs : \A j \in 1..Len(ph2'[p].tasks) :
            ph2'[p].tasks[j].type = item_type(config)]_vars

\* tasks of the run's type were pushed and popped while the partition of the other
\* type holds a task
C11_Witness ==
    /\ hist.popped[TaskList] # <<>>
    /\ lists[TaskList] # <<>>
    /\ \E n \in DOMAIN lists : n # TaskList /\ lists[n] # <<>>

\* C12: a task that fails with retry_count = n < 3 is re-enqueued exactly once, for
\* the same (item_id, item_type), and the new queue entry carries retry_count
\* n + 1 (the count the handler has just raised); with n >= 3 nothing is enqueued.
C12_RequeueCarriesCount ==
    [][\A p \in Procs : \A j \in 1..Len(ph2[p].jobs) :
        /\ (ph2[p].jobs[j].pc = "requeue" /\ ph2'[p].jobs[j].pc = "fin") =>
              /\ Len(lists'[TaskList]) = Len(lists[TaskList]) + 1
              /\ lists'[TaskList][1].iid = ph2[p].jobs[j].task.iid
              /\ lists'[TaskList][1].type = ph2[p].jobs[j].task.type
              /\ lists'[TaskList][1].retry_count = ph2[p].jobs[j].task.retry_count
        /\ (ph2[p].jobs[j].pc # "requeue" /\ ph2'[p].jobs # <<>>
              /\ ph2'[p].jobs[j].pc = "requeue") =>
              /\ ph2[p].jobs[j].task.retry_count < 3
              /\ ph2'[p].jobs[j].task.retry_count = ph2[p].jobs[j].task.retry_count + 1
              /\ lists' = lists]_vars

\* C13: a failure of the fetch or of the extended upsert of one task stays inside
\* that task: the loop is still in its gather, the failed task goes through its
\* failure handling (or goes on, for a list that came back empty), the other
\* tasks of the batch, phase 1 and the store are untouched by the failure, and
\* the loop is only ever aborted by a failure of Redis.
C13_FetchFailureContained ==
    [][\A p \in Procs :
        /\ (hist'.faults > hist.faults /\ ph2'[p] # ph2[p]) =>
              /\ ph2[p].pc = "gather" /\ ph2'[p].pc = "gather"
              /\ ph2'[p].tasks = ph2[p].tasks
              /\ \E j \in 1..Len(ph2[p].jobs) :
                    /\ ph2'[p].jobs[j].pc \in {"fetch", "upsert", "requeue", "fin"}
                    /\ \A i \in 1..Len(ph2[p].jobs) :
                          i # j => ph2'[p].jobs[i] = ph2[p].jobs[i]
              /\ ph1' = ph1 /\ store' = store /\ scraper' = scraper
        /\ (ph2'[p].pc = "failed" /\ ph2[p].pc # "failed") =>
              hist'.rfaults > hist.rfaults]_vars

\* in a batch of two, one task failed and was re-enqueued while the other one was
\* fetched and persisted
C13_Witness ==
    \E p \in Procs : \E i, j \in 1..Len(ph2[p].jobs) :
        /\ ph2[p].pc = "gather"
        /\ ph2[p].jobs[i].pc = "fin" /\ ph2[p].jobs[i].task.retry_count = 1
        /\ ph2[p].jobs[j].pc = "fin" /\ ph2[p].jobs[j].task.retry_count = 0
        /\ ph2[p].jobs[j].meta.present
        /\ ph2[p].jobs[j].task.iid \in DOMAIN Docs
        /\ Docs[ph2[p].jobs[j].task.iid].status.phase = "extended"

\* a call to Redis has raised in this step
RedisFailed == hist'.rfaults > hist.rfaults

\* C14 (as stated): a failure of Redis is caught nowhere: it aborts the coroutine
\* in which it occurred, be it scrape() while it enqueues or
\* process_extended_tasks() while it polls, re-enqueues or waits for admission.
C14_StoreFailureAborts ==
    [][RedisFailed =>
        \A p \in Procs :
            /\ (ph2'[p] # ph2[p]) => ph2'[p].pc = "failed"
            /\ (ph1'[p] # ph1[p] /\ ph2'[p] = ph2[p]) => ph1'[p].pc = "failed"]_vars

\* C14 (amended): a failure of Redis aborts process_extended_tasks() when it occurs
\* in a poll of the queue or in the re-enqueue of a failed task, and an aborted
\* loop takes no further step.  While scrape() enqueues, it is caught per item:
\* no task is pushed for the item and scrape() goes on.  While a fetch waits for
\* admission, it is handled as a failure of that task, whose failure handling runs.
C14_StoreFailureHandling ==
    [][\A p \in Procs :
        /\ (RedisFailed /\ ph2'[p] # ph2[p]) =>
              /\ lists' = lists /\ store' = store
              /\ \/ /\ ph2[p].pc = "poll"
                    /\ ph2'[p] = [ph2[p] EXCEPT !.pc = "failed"]
                 \/ /\ ph2[p].pc = "gather"
                    /\ \E j \in 1..Len(ph2[p].jobs) : ph2[p].jobs[j].pc = "requeue"
                    /\ ph2'[p] = [ph2[p] EXCEPT !.pc = "failed"]
                 \/ /\ ph2[p].pc = "gather" /\ ph2'[p].pc = "gather"
                    /\ \E j \in 1..Len(ph2[p].jobs) :
                          /\ ph2[p].jobs[j].pc = "fetch"
                          /\ ph2'[p].jobs[j].pc \in {"requeue", "fin"}
                          /\ \A i \in 1..Len(ph2[p].jobs) :
                                i # j => ph2'[p].jobs[i] = ph2[p].jobs[i]
        /\ (RedisFailed /\ ph1'[p] # ph1[p] /\ ph2'[p] = ph2[p]) =>
              /\ ph1[p].pc = "enqueue"
              /\ ph1'[p].pc \in {"enqueue", "upsert", "done"}
              /\ ph1'[p].pos >= ph1[p].pos
              /\ lists' = lists /\ store' = store
        /\ (ph2[p].pc = "failed") => ph2'[p] = ph2[p]]_vars

\* the re-enqueue of a failed task raised and the loop was aborted
C14_Witness ==
    \E p \in Procs : \E j \in 1..Len(ph2[p].jobs) :
        /\ ph2[p].pc = "failed"
        /\ ph2[p].jobs[j].pc = "requeue"
        /\ hist.rfaults > 0

\* C15: when the bulk upsert of a batch raises, nothing is stored and no task is
\* pushed for the batch, the batch is not tried again, scrape() goes on with the
\* batch that follows (or ends, and then marks phase 1 complete); tasks are only
\* enqueued for a batch whose bulk upsert has stored its items.
C15_BatchFailureSkipsBatch ==
    [][\A p \in Procs :
        /\ (/\ ph1[p].pc = "upsert"
            /\ ph1'[p] # ph1[p]
            /\ ph1'[p].pc \notin {"enqueue", "killed"}) =>
              /\ hist'.faults = hist.faults + 1
              /\ lists' = lists /\ store' = store
              /\ ph1'[p].pc \in {"upsert", "done", "failed"}
              /\ ph1'[p].pc = "done" =>
                    /\ scraper'[p].basic_stage
                    /\ ph1[p].pos = Len(list_items(config)) + 1
              /\ ph1'[p].pc # "done" =>
                    /\ ph1'[p].pos > ph1[p].pos
                    /\ ph1'[p].batch =
                          SubSeq(list_items(config), ph1[p].pos, ph1'[p].pos - 1)
        /\ (ph1'[p].pc = "enqueue" /\ ph1[p].pc # "enqueue") =>
              /\ ph1[p].pc = "upsert"
              /\ ph1'[p].batch = ph1[p].batch
              /\ hist'.faults = hist.faults
              /\ \A x \in 1..Len(ph1[p].batch) :
                    ph1[p].batch[x].id \in DOMAIN store'[item_type(config)]]_vars

\* the bulk upsert of the first batch raised, the second batch was stored and
\* enqueued, and phase 1 is complete
C15_Witness ==
    /\ ph1["p1"].pc = "done"
    /\ scraper["p1"].basic_stage
    /\ hist.faults = 1
    /\ DOMAIN Docs = {"b"}
    /\ hist.npush[TaskList] = 1

\* C16: an item whose id or metadata extraction raises is skipped alone: scrape()
\* does not fail on it, and when phase 1 is through every other yielded item
\* has been stored and a task has been pushed for it.
C16_ExtractionFailureIsolated ==
    LET yielded == list_items(config)
        raising == {x \in 1..Len(yielded) : metadata_raises(config, yielded[x])}
    IN  \A p \in Procs :
            raising # {} =>
                /\ ph1[p].pc # "failed"
                /\ (ph1[p].pc = "done" /\ hist.faults = 0 /\ hist.rfaults = 0) =>
                      \A x \in (1..Len(yielded)) \ raising :
                          /\ yielded[x].id \in DOMAIN Docs
                          /\ hist.npush[TaskList] >= Len(yielded) - Cardinality(raising)

C18_TagFilter ==
    \A p \in Procs :
        (config.type = "models" /\ ph1[p].pc \notin {"off", "start", "killed"}) =>
            /\ ph1[p].pc # "failed"
            /\ list_items(config) =
                  SelectSeq(config.catalog,
                            LAMBDA m : config.tags.none \/ \E x \in config.tags.list : x \in m.tags)

\* the identities of a kind's remote response at a revision, as they come
RawIds(k, rev) ==
    IF k = "likers" THEN [x \in 1..Len(RemoteLikers(rev)) |-> RemoteLikers(rev)[x].user]
    ELSE IF k = "contributors" THEN flatten(RemoteCommits(rev))
    ELSE <<>>

FirstIndex(raw, u) == CHOOSE i \in 1..Len(raw) : raw[i] = u /\ \A h \in 1..(i - 1) : raw[h] # u

\* l holds every identity of raw once, in the order of the first occurrences
FirstSeen(l, raw) ==
    /\ \A i, j \in 1..Len(l) : i # j => l[i] # l[j]
    /\ {l[i] : i \in 1..Len(l)} = {raw[i] : i \in 1..Len(raw)}
    /\ \A i, j \in 1..Len(l) : i < j => FirstIndex(raw, l[i]) < FirstIndex(raw, l[j])

\* C19: every identity list a fetch has returned is empty (the sub-fetch failed)
\* or holds each identity of the remote response once, in first-seen order.
C19_IdentityListsDeduplicated ==
    \A p \in Procs : \A j \in 1..Len(ph2[p].jobs) : \A k \in DOMAIN ph2[p].jobs[j].rl :
        ph2[p].jobs[j].rl[k].pc = "done" =>
            \/ ph2[p].jobs[j].rl[k].ids = <<>>
            \/ \E rev \in 1..MaxRev : FirstSeen(ph2[p].jobs[j].rl[k].ids, RawIds(k, rev))

\* C20: when the gather of a drained batch of n first-attempt tasks (their basic
\* records present) is through and k of them failed, the queue holds k new tasks,
\* one per failed item, each with retry_count 1, and the n - k other items
\* have records at phase 'extended'.
C20_BatchOutcome ==
    \A p \in Procs :
        LET jobs == ph2[p].jobs
            failed == {j \in 1..Len(jobs) : jobs[j].task.retry_count >= 1}
            queue == lists[TaskList]
            new == {i \in 1..Len(queue) : queue[i].gen = 1}
        IN  (/\ ph2[p].pc = "gather"
             /\ \A j \in 1..Len(jobs) :
                   /\ jobs[j].pc = "fin"
                   /\ jobs[j].task.gen = 0
                   /\ jobs[j].task.iid \in DOMAIN Docs
             /\ ~config.second
             /\ hist.rfaults = 0
             /\ hist.faults = Cardinality(failed)) =>
                /\ Cardinality(new) = Cardinality(failed)
                /\ \A i \in new :
                      /\ queue[i].retry_count = 1
                      /\ \E j \in failed : jobs[j].task.iid = queue[i].iid
                /\ \A j \in (1..Len(jobs)) \ failed :
                      Docs[jobs[j].task.iid].status.phase = "extended"

\* the fields of a queue entry other than the history the model adds
History == {"seq", "gen"}
PayloadFields(t) == DOMAIN t \ History

\* every entry of every list, and every task a process drained
Entries == UNION {{lists[n][i] : i \in 1..Len(lists[n])} : n \in ListNames}
Drained == UNION {Held(p) : p \in Procs}

\* C21 as stated: every queue entry is a record with exactly the fields task_id,
\* item_id, type, status, retry_count and created_at.
C21_FieldsAsStated ==
    \A t \in Entries :
        PayloadFields(t) = {"task_id", "item_id", "type", "status", "retry_count", "created_at"}

\* C21 (amended): every queue entry is a record with exactly the fields tid, iid,
\* type, status, retry_count and created_at, where tid = '<item_type>:<item_id>'
\* and the entry lies in the list of its type; the task a job of the phase-2
\* consumer works on is the entry it popped, and the job's upsert goes to the
\* store named by the entry's type, at the document named by the entry's iid.
C21_TaskFields ==
    /\ \A t \in Entries \cup Drained :
        /\ PayloadFields(t) = {"tid", "iid", "type", "status", "retry_count", "created_at"}
        /\ t.tid = t.type \o ":" \o t.iid
        /\ t.type \in ItemTypes
        /\ t.status = "pending"
        /\ t.retry_count = 0
    /\ \A n \in ListNames : \A i \in 1..Len(lists[n]) : n = ListName(lists[n][i].type)
    /\ \A p \in Procs : \A j \in 1..Len(ph2[p].jobs) :
        /\ ph2[p].jobs[j].task.iid = ph2[p].tasks[j].iid
        /\ ph2[p].jobs[j].task.type = ph2[p].tasks[j].type
        /\ ph2[p].jobs[j].task.tid = ph2[p].tasks[j].tid
        /\ (ph2[p].jobs[j].pc = "fin" /\ ph2[p].jobs[j].task.retry_count = 0) =>
              /\ ph2[p].tasks[j].iid \in DOMAIN store[ph2[p].tasks[j].type]
              /\ store[ph2[p].tasks[j].type][ph2[p].tasks[j].iid].extended_metadata.present

\* a task pushed by this run is queued while a job has persisted the metadata of
\* the item its task names
C21_Witness ==
    /\ \E t \in Queued : t.created_at = now /\ t.seq > 1
    /\ \E p \in Procs : \E j \in 1..Len(ph2[p].jobs) :
        /\ ph2[p].jobs[j].pc = "fin"
        /\ ph2[p].jobs[j].task.retry_count = 0
        /\ Docs[ph2[p].jobs[j].task.iid].status.phase = "extended"

\* every queued or drained task names an item with a record in the store of its
\* type, and so does every item of a batch whose tasks are being pushed
C22_Inv ==
    /\ \A t \in Entries \cup Drained : t.iid \in DOMAIN store[t.type]
    /\ \A p \in Procs : ph1[p].pc = "enqueue" =>
          \A x \in 1..Len(ph1[p].batch) : get_item_id(config, ph1[p].batch[x]) \in DOMAIN Docs

\* C22: every task in a queue (a first enqueue or a retry) names an item that
\* has a record in the store of its type; a task is pushed by phase 1 only in a
\* step that follows the bulk upsert of the batch holding its item.
C22_EnqueuedAfterPersisted ==
    [][/\ C22_Inv'
       /\ \A p \in Procs :
            (ph1[p].pc = "enqueue" /\ lists' # lists /\ ph1'[p] # ph1[p]) =>
                /\ Head(lists'[TaskList]).iid = get_item_id(config, ph1[p].batch[ph1[p].i])
                /\ Head(lists'[TaskList]).iid \in DOMAIN Docs]_vars

\* a first enqueue and a retry are queued together
C22_Witness ==
    \E t \in Queued, u \in Queued :
        /\ t.gen = 0 /\ t.created_at = now
        /\ u.gen > 0
        /\ {t.iid, u.iid} \subseteq DOMAIN Docs

\* what phase 1 of a process does in a step: it pushes a first enqueue, or it
\* writes basic metadata
Phase1Pushes == Len(lists'[TaskList]) > Len(lists[TaskList]) /\ Head(lists'[TaskList]).gen = 0
Phase1Writes ==
    \/ DOMAIN Docs' # DOMAIN Docs
    \/ \E id \in DOMAIN Docs : Docs'[id].basic_metadata # Docs[id].basic_metadata
    \/ \E id \in DOMAIN Docs : Docs[id].status.phase = "extended" /\ Docs'[id].status.phase = "basic"

C23_Step(p) ==
    /\ (~scraper[p].basic_stage /\ scraper'[p].basic_stage) =>
          /\ ph1'[p].pc = "done"
          /\ ph1'[p].pos = Len(list_items(config)) + 1
          /\ \/ ph1[p].pc = "start" /\ list_items(config) = <<>>
             \/ ph1[p].pc = "upsert" /\ hist'.faults > hist.faults
             \/ ph1[p].pc = "enqueue" /\ ph1[p].i = Len(ph1[p].batch)
    /\ (ph1[p].pc # "done" /\ ph1'[p].pc = "done") => scraper'[p].basic_stage
    /\ scraper[p].basic_stage =>
          /\ scraper'[p].basic_stage
          /\ ph1[p].pc \in {"done", "killed"}
          /\ ph1'[p] = ph1[p] \/ ph1'[p].pc = "killed"
          /\ ~Phase1Pushes
          /\ ~Phase1Writes

\* C23: the flag of phase 1 is set in the step in which scrape() finds list()
\* exhausted, after the flush of the last batch (a partial one included) has
\* returned, and in no other step; with the flag set, phase 1 pushes no task and
\* writes no record.
C23_MarkedCompleteAtExhaustion == [][\A p \in Procs : C23_Step(p)]_vars

\* the flag is set after a final partial batch was written and its tasks pushed,
\* and phase 2 still works
C23_Witness ==
    \E p \in Procs :
        /\ scraper[p].basic_stage
        /\ ph1[p].pc = "done"
        /\ Len(list_items(config)) % config.batch_size # 0
        /\ \A x \in 1..Len(list_items(config)) : list_items(config)[x].id \in DOMAIN Docs
        /\ hist.npush[TaskList] >= Len(list_items(config))
        /\ ph2[p].pc = "gather"

\* a poll of process p ends in this step with nothing drained: the first pop of
\* the poll finds the list empty, or the poll has no pop at all
DrainsNothing(p) ==
    \/ ph2[p].pc = "poll" /\ ph2[p].tasks = <<>> /\ lists[TaskList] = <<>> /\ PollerStep(p)
    \/ ph2[p].pc \in {"start", "sleep", "gather"} /\ BatchCap(config) = 0 /\ PollerStep(p)

C24_Step(p) ==
    /\ (DrainsNothing(p) /\ ~scraper[p].basic_stage) =>
          /\ ph2'[p].pc = "sleep"
          /\ ph2'[p].wake = now + 2
          /\ ~scraper'[p].extended_stage
    /\ (ph2[p].pc = "sleep" /\ PollerStep(p)) =>
          /\ now >= ph2[p].wake
          /\ ph2'[p].pc \in {"poll", "sleep", "done"}
          /\ ph2'[p].pc = "done" => scraper[p].basic_stage
          /\ ph2'[p].pc = "sleep" => ph2'[p].wake = now + 2
    /\ ph2'[p].pc = "done" => scraper'[p].basic_stage /\ ph1'[p].pc \in {"done", "off"}

\* C24: the phase-2 loop of a process never reaches DONE while its phase 1 has
\* not completed: a poll that drains nothing with the flag of phase 1 unset puts
\* the loop to sleep for 2 seconds, after which it polls the queue and tests the
\* flag again.
C24_NoDoneBeforePhase1 == [][\A p \in Procs : C24_Step(p)]_vars

\* the loop sleeps after an empty poll while phase 1 still pushes tasks
C24_Witness ==
    \E p \in Procs :
        /\ ph2[p].pc = "sleep"
        /\ ph2[p].wake = now + 2
        /\ ~scraper[p].basic_stage
        /\ ph1[p].pc = "enqueue"
        /\ BatchCap(config) > 0

\* the jobs of a process whose fetch is under way (between the start of
\* _process_single_task and the return of fetch_extended_metadata)
Fetching(p) == {j \in 1..Len(ph2[p].jobs) : ph2[p].jobs[j].pc \in {"detail", "fetch"}}

C25_Bounded(p) ==
    /\ Len(ph2[p].tasks) <= config.rate_limit \div 2
    /\ Len(ph2[p].jobs) <= config.rate_limit \div 2
    /\ Cardinality(Fetching(p)) <= config.rate_limit \div 2
    /\ ph2[p].pc = "poll" => Len(ph2[p].tasks) < config.rate_limit \div 2

C25_Step(p) ==
    /\ (ph2[p].pc = "poll" /\ PollerStep(p)) =>
          /\ Len(lists[TaskList]) - Len(lists'[TaskList]) <= 1
          /\ lists[TaskList] = <<>> =>
                /\ ph2'[p].pc # "poll"
                /\ ph2'[p].tasks = ph2[p].tasks
                /\ lists' = lists
          /\ ph2'[p].pc = "poll" => Len(ph2'[p].tasks) = Len(ph2[p].tasks) + 1
    /\ (ph2[p].pc # "poll" /\ ph2'[p] # ph2[p]) =>
          Len(lists'[TaskList]) >= Len(lists[TaskList])

\* C25: a poll of the loop drains at most rate_limit // 2 tasks, one pop at a
\* time, and stops at the first pop that finds the list empty; the tasks and the
\* fetches in flight of one poller never exceed rate_limit // 2.
C25_DrainBounded == [][\A p \in Procs : C25_Bounded(p)' /\ C25_Step(p)]_vars

\* a poll stopped at the cap while another task is queued, and the fetch of the
\* drained task is under way
C25_Witness ==
    \E p \in Procs :
        /\ ph2[p].pc = "gather"
        /\ Len(ph2[p].tasks) = config.rate_limit \div 2
        /\ Cardinality(Fetching(p)) = config.rate_limit \div 2
        /\ lists[TaskList] # <<>>

\* the batch process p is flushing: the summaries yielded before pos, batch_size of
\* them or the remainder at the end of the sequence
C26_Batch(p) ==
    LET yielded == list_items(config)
        b == ph1[p].batch
        first == ph1[p].pos - Len(b)
    IN  /\ ph1[p].pc \in {"upsert", "enqueue"} =>
              /\ b # <<>>
              /\ Len(b) <= config.batch_size
              /\ first >= 1
              /\ (first - 1) % config.batch_size = 0
              /\ b = SubSeq(yielded, first, ph1[p].pos - 1)
              /\ Len(b) = config.batch_size \/ ph1[p].pos = Len(yielded) + 1
        /\ ph1[p].pc = "enqueue" => ph1[p].i \in 1..Len(b)
        /\ ph1[p].pc = "done" => ph1[p].pos = Len(yielded) + 1

\* one flush: the bulk upsert of the whole batch, then one push per item in the
\* order of the batch, then the batch that starts where this one ended
C26_Step(p) ==
    /\ (ph1[p].pc = "upsert" /\ ph1'[p].pc = "enqueue") =>
          /\ Docs' = bulk_upsert_basic_metadata(Docs,
                        [x \in 1..Len(ph1[p].batch) |-> get_item_metadata(config, ph1[p].batch[x])])
          /\ \A x \in 1..Len(ph1[p].batch) : ph1[p].batch[x].id \in DOMAIN Docs'
          /\ ph1'[p].i = 1
          /\ ph1'[p].batch = ph1[p].batch
          /\ lists' = lists
    /\ (ph1[p].pc = "enqueue" /\ ph1'[p] # ph1[p] /\ ph1'[p].pc # "killed") =>
          /\ store' = store
          /\ hist'.rfaults = hist.rfaults =>
                lists'[TaskList] = <<Head(lists'[TaskList])>> \o lists[TaskList]
          /\ hist'.rfaults = hist.rfaults =>
                Head(lists'[TaskList]).iid = get_item_id(config, ph1[p].batch[ph1[p].i])
          /\ IF ph1[p].i < Len(ph1[p].batch)
             THEN ph1'[p] = [ph1[p] EXCEPT !.i = @ + 1]
             ELSE ph1'[p].pos - Len(ph1'[p].batch) = ph1[p].pos
    /\ (ph1[p].pc = "upsert" /\ ph1'[p].pc \notin {"upsert", "enqueue", "killed"} /\ ph1'[p] # ph1[p]) =>
          ph1'[p].pos - Len(ph1'[p].batch) = ph1[p].pos
    /\ (ph1[p].pc = "upsert" /\ ph1'[p].pc = "upsert" /\ ph1'[p] # ph1[p]) =>
          ph1'[p].pos - Len(ph1'[p].batch) = ph1[p].pos

\* C26: phase 1 flushes a batch whenever batch_size summaries have accumulated
\* and once more for a non-empty remainder: the batches are consecutive slices of
\* the yielded sequence in its order, none empty or larger than batch_size, every
\* yielded summary is in exactly one of them when scrape() is done, and a flush is
\* one bulk upsert followed by one push per item of the batch.
C26_Batching == [][\A p \in Procs : C26_Batch(p)' /\ C26_Step(p)]_vars

\* after a full batch, the remainder is being flushed: its record is written and
\* its task is about to be pushed
C26_Witness ==
    \E p \in Procs :
        /\ ph1[p].pc = "enqueue"
        /\ Len(ph1[p].batch) < config.batch_size
        /\ ph1[p].pos = Len(list_items(config)) + 1
        /\ ph1[p].pos - Len(ph1[p].batch) > config.batch_size
        /\ hist.npush[TaskList] >= config.batch_size

\* the attempt of job j of process p fails in this step: the except branch of
\* _process_single_task is entered
AttemptFails(p, j) ==
    /\ j \in 1..Len(ph2'[p].jobs)
    /\ ph2[p].jobs[j].pc \in {"detail", "fetch", "upsert"}
    /\ ph2'[p].jobs[j].task.retry_count > ph2[p].jobs[j].task.retry_count

\* the attempt of job j of process p has failed
AttemptFailed(p, j) == ph2[p].jobs[j].task.retry_count > 0

C27_Step(p, j) ==
    /\ AttemptFails(p, j) => store' = store
    /\ (AttemptFailed(p, j) /\ (j \notin 1..Len(ph2'[p].jobs) \/ ph2'[p].jobs[j] # ph2[p].jobs[j]))
          => store' = store

\* every record holds the basic metadata extracted from a listed summary of its
\* id, and a record at phase 'extended' has had a fetch of its item complete
C27_Records ==
    \A id \in DOMAIN Docs :
        /\ \/ \E x \in 1..Len(config.catalog) :
                 /\ config.catalog[x].id = id
                 /\ Docs[id].basic_metadata = get_item_metadata(config, config.catalog[x])
           \/ id \in config.stored /\ Docs[id] = Stored(config, id)
        /\ hist.fetched[id] = 0 =>
              /\ Docs[id].status.phase = "basic"
              /\ ~Docs[id].extended_metadata.present

\* C27: a failed attempt (the fetch or the upsert raised) leaves the store
\* unchanged, in the step in which it fails and in what the handler does after
\* it; an item for which no fetch ever completed keeps its record at phase
\* 'basic', and the basic_metadata of every record is what phase 1 extracted.
C27_FailedFetchLeavesRecord ==
    [][/\ C27_Records'
       /\ \A p \in Procs : \A j \in 1..Len(ph2[p].jobs) : C27_Step(p, j)]_vars

\* the task of an item was attempted and failed three times, and the record of
\* the item is as phase 1 wrote it
C27_Witness ==
    \E t \in Queued :
        /\ t.gen >= 3
        /\ t.iid \in DOMAIN Docs
        /\ Docs[t.iid].status.phase = "basic"
        /\ ~Docs[t.iid].extended_metadata.present
        /\ \E x \in 1..Len(list_items(config)) :
              Docs[t.iid].basic_metadata = get_item_metadata(config, list_items(config)[x])

\* job j of process p re-enqueues its task in this step
Requeues(p, j) ==
    /\ j \in 1..Len(ph2'[p].jobs)
    /\ ph2[p].jobs[j].pc = "requeue"
    /\ ph2'[p].jobs[j].pc = "fin"

C28_Step(p) ==
    /\ \A j \in 1..Len(ph2[p].jobs) :
          Requeues(p, j) =>
              /\ lists'[TaskList] = <<Head(lists'[TaskList])>> \o lists[TaskList]
              /\ Head(lists'[TaskList]).iid = ph2[p].jobs[j].task.iid
              /\ Head(lists'[TaskList]).gen = ph2[p].jobs[j].task.gen + 1
              /\ Head(lists'[TaskList]).created_at = now
              /\ \A x \in 1..Len(lists[TaskList]) :
                    lists[TaskList][x].seq < Head(lists'[TaskList]).seq
    /\ (ph2[p].pc = "poll" /\ Len(ph2'[p].tasks) > Len(ph2[p].tasks)) =>
          LET t == ph2'[p].tasks[Len(ph2'[p].tasks)]
          IN  /\ lists[TaskList] = lists'[TaskList] \o <<t>>
              /\ \A x \in 1..Len(lists'[TaskList]) : lists'[TaskList][x].seq > t.seq

\* C28: a retried task is pushed, in the step of its failure handling and with
\* no delay, at the end of its list that is popped last, behind every task the
\* list holds at that moment; a pop returns a task only when no task pushed
\* before it is left in the list.
C28_RetryAtBack == [][\A p \in Procs : C28_Step(p)]_vars

\* a retried task, pushed behind an older task, was popped after it, in the
\* instant of its re-enqueue
C28_Witness ==
    \E p \in Procs : \E t \in Held(p) :
        /\ t.gen > 0
        /\ t.seq >= 3
        /\ t.created_at = now
        /\ \A k \in 1..(t.seq - 1) : k \in {hist.popped[TaskList][x] : x \in 1..Len(hist.popped[TaskList])}

\* C29: the Collection variant passes over what an earlier run stored: no
\* summary that phase 1 takes from list() into a batch, and no task in the queue,
\* names a collection whose record an earlier run of the scraper left in the
\* collections store.
C29_StoredNotListedAgain ==
    config.type = "collections" =>
        /\ \A p \in Procs : \A x \in 1..Len(ph1[p].batch) :
              get_item_id(config, ph1[p].batch[x]) \notin config.stored
        /\ \A t \in Queued : t.iid \notin config.stored

\* C30: when the phase-2 loop of the only poller of a run is DONE, the list of
\* its item_type is empty, whatever rate_limit >= 1 the run was given.
C30_DoneMeansDrained ==
    \A p \in Procs :
        (~config.second /\ ph2[p].pc = "done") => lists[TaskList] = <<>>

\* no task can arrive any more: the list is empty, no process is in phase 1 and no
\* process holds a task
Drained_for_good ==
    /\ lists[TaskList] = <<>>
    /\ \A q \in Procs : ph1[q].pc \in {"off", "done", "failed", "killed"}
    /\ \A q \in Procs : ph2[q].tasks = <<>> /\ ph2[q].jobs = <<>>

\* C31: a phase-2 loop run alone in resume mode reaches DONE once the queue has
\* been drained and all fetches have completed: its poll of the drained queue
\* ends the loop.
C31_ResumeTerminates ==
    [][\A p \in Procs :
          (Resume(p) /\ Drained_for_good /\ ph2[p].pc = "poll" /\ PollerStep(p))
              => ph2'[p].pc = "done"]_vars

\* the key of every record is the id of its basic metadata, and every task of the
\* run's type names the key of a record
C32_Keys ==
    /\ \A id \in DOMAIN Docs : Docs[id].basic_metadata.id = id
    /\ \A t \in Queued \cup Drained :
          t.iid \in DOMAIN Docs /\ Docs[t.iid].basic_metadata.id = t.iid

\* the task phase 1 pushes for the i-th item of a flushed batch carries the id
\* under which the batch's upsert stored the item; the upsert of a job writes the
\* record its task names and no other
C32_Step(p) ==
    /\ (ph1[p].pc = "enqueue" /\ Len(lists'[TaskList]) > Len(lists[TaskList])
            /\ Head(lists'[TaskList]).gen = 0) =>
          LET item == ph1[p].batch[ph1[p].i]
              key == get_item_metadata(config, item).id
          IN  /\ Head(lists'[TaskList]).iid = key
              /\ key \in DOMAIN Docs
              /\ Docs[key].basic_metadata = get_item_metadata(config, item)
    /\ \A j \in 1..Len(ph2[p].jobs) :
          (ph2[p].jobs[j].pc = "upsert" /\ j \in 1..Len(ph2'[p].jobs)
                /\ ph2'[p].jobs[j].pc = "fin"
                /\ ph2'[p].jobs[j].task = ph2[p].jobs[j].task) =>
              \A id \in DOMAIN Docs :
                  Docs'[id] # Docs[id] =>
                      /\ id = ph2[p].jobs[j].task.iid
                      /\ Docs'[id].basic_metadata = Docs[id].basic_metadata
                      /\ Docs'[id].status.phase = "extended"

\* C32: for every item phase 1 flushes, the key of its basic record (the id of
\* the extracted metadata) is the item id of the task enqueued for it, and the
\* extended upsert of that task writes the record phase 1 wrote.
C32_TaskNamesRecordKey == [][C32_Keys' /\ \A p \in Procs : C32_Step(p)]_vars

\* the record of one flushed item was extended by its task while the task of
\* another flushed item is queued
C32_Witness ==
    \E t \in Queued : \E id \in DOMAIN Docs :
        /\ t.gen = 0
        /\ t.iid # id
        /\ Docs[t.iid].basic_metadata.id = t.iid
        /\ Docs[t.iid].status.phase = "basic"
        /\ Docs[id].status.phase = "extended"
        /\ Docs[id].basic_metadata.id = id

\* job j of process p gets through its upsert in this step
Persists(p, j) ==
    /\ j \in 1..Len(ph2'[p].jobs)
    /\ ph2[p].jobs[j].pc = "upsert"
    /\ ph2'[p].jobs[j].pc = "fin"
    /\ ph2'[p].jobs[j].task = ph2[p].jobs[j].task

C33_Step(p, j) ==
    (Persists(p, j) /\ ph2[p].jobs[j].task.iid \notin DOMAIN Docs) =>
        /\ store' = store
        /\ lists' = lists
        /\ ph2'[p].jobs[j].task.retry_count = 0

\* every record has basic_metadata, and only records that had it are 'extended'
C33_Records ==
    \A t \in ItemTypes : \A id \in DOMAIN store[t] :
        /\ "basic_metadata" \in DOMAIN store[t][id]
        /\ store[t][id].basic_metadata.id = id

LastOf(b, id) ==
    LET x == CHOOSE y \in 1..Len(b) : b[y].id = id /\ \A z \in (y + 1)..Len(b) : b[z].id # id
    IN  get_item_metadata(config, b[x])

C34_Step(p) ==
    (ph1[p].pc = "upsert" /\ ph1'[p].pc = "enqueue") =>
        LET b == ph1[p].batch
            ids == {b[x].id : x \in 1..Len(b)}
        IN  /\ DOMAIN Docs' = DOMAIN Docs \cup ids
            /\ \A id \in ids :
                  /\ Docs'[id].basic_metadata = LastOf(b, id)
                  /\ Docs'[id].status = [phase |-> "basic"]
                  /\ id \in DOMAIN Docs =>
                        Docs'[id].extended_metadata = Docs[id].extended_metadata
            /\ \A id \in DOMAIN Docs \ ids : Docs'[id] = Docs[id]
            /\ \A t \in ItemTypes \ {item_type(config)} : store'[t] = store[t]

\* C34: a bulk basic upsert replaces the basic_metadata of a record that exists
\* by the new one and sets its phase to 'basic'; it leaves the extended_metadata
\* of that record, the records of the other ids and the other stores unchanged.
C34_BasicUpsertOverwrites == [][\A p \in Procs : C34_Step(p)]_vars

\* the record an earlier run left at phase 'extended' was upserted again: new
\* basic_metadata, phase 'basic', the extended_metadata it had
C34_Witness ==
    \E p \in Procs : \E id \in config.stored :
        /\ ph1[p].pc = "enqueue"
        /\ ph1[p].i = 1
        /\ \E x \in 1..Len(ph1[p].batch) : ph1[p].batch[x].id = id
        /\ Docs[id].basic_metadata # Stored(config, id).basic_metadata
        /\ Docs[id].status.phase = "basic"
        /\ Docs[id].extended_metadata = Stored(config, id).extended_metadata
        /\ Docs[id].extended_metadata.present

\* a job of process p is not through: its fetch waits for admission or for the
\* remote, or its upsert or its re-enqueue is pending
Unfinished(p) == \E j \in 1..Len(ph2[p].jobs) : ph2[p].jobs[j].pc # "fin"

C35_Step(p) ==
    /\ (ph2[p].pc = "gather" /\ Unfinished(p)) =>
          /\ ph2'[p].pc \in {"gather", "killed", "failed"}
          /\ ph2'[p].tasks = ph2[p].tasks
          /\ Len(lists'[TaskList]) >= Len(lists[TaskList]) \/ ph2'[p] = ph2[p]
          /\ ~scraper'[p].extended_stage
    /\ (ph2[p].pc = "gather" /\ ph2'[p].pc \in {"poll", "sleep", "done"}) =>
          \A j \in 1..Len(ph2[p].jobs) :
              /\ ph2[p].jobs[j].pc = "fin"
              /\ \/ ph2[p].jobs[j].task.retry_count > 0
                 \/ ph2[p].jobs[j].meta.present

\* C35: while a fetch of the drained batch is neither persisted nor through its
\* failure handling, the loop of its process pops no task and does not reach
\* DONE; the loop leaves gather only with every job of the batch through.
C35_WaitsForWholeBatch == [][\A p \in Procs : C35_Step(p)]_vars

\* one job of the batch is through and the other waits for admission, while a
\* task is queued
C35_Witness ==
    \E p \in Procs : \E j1, j2 \in 1..Len(ph2[p].jobs) :
        /\ ph2[p].pc = "gather"
        /\ ph2[p].jobs[j1].pc = "fin"
        /\ ph2[p].jobs[j2].pc = "fetch"
        /\ \E k \in DOMAIN ph2[p].jobs[j2].rl : ph2[p].jobs[j2].rl[k].pc \in {"poll", "sleep"}
        /\ lists[TaskList] # <<>>

\* ------------------------------------------------------------------ graph claims
CleanupEnded == migrator.pc \in {"done", "failed"}

\* C37: delete_single_relation_users terminates for every finite graph, also when
\* a batch of delete_nodes fails: the loop is eventually left, by the empty
\* answer of the filter query or by the exception of the query.
C37_CleanupTerminates == <>CleanupEnded

Migrated == migrator.pc \in {"query", "delete", "done", "failed"}

SkippedModels ==
    {id \in DOMAIN store["models"] : should_skip(store["models"][id].basic_metadata.status)}

\* C38: once the models are migrated, the graph holds no Model node for a stored
\* model whose status has private, disabled or gated truthy, whichever stored
\* model names it as its base_model.
C38_NoNodeForSkippedModel ==
    Migrated => \A id \in SkippedModels : get_node_uid(dgraph, "Model", id) = 0

\* ---------------------------------------------------------------- limiter claims
\* the entries of a sorted set / of an admission log inside the trailing window at t
InWindow(z, t) == {e \in z : e.score > t - rate_limit_window /\ e.score <= t}

AdmittedInWindow(k, t) ==
    Cardinality({i \in 1..Len(admitLog[k]) :
                    admitLog[k][i] > t - rate_limit_window /\ admitLog[k][i] <= t})

\* C1: whenever a call with limit L is admitted, the number of calls admitted for
\* its key within the trailing 60-unit window (this call included) is at most L.
C1_AdmittedWithinLimit ==
    lastCall.ret = 0 =>
        AdmittedInWindow(lastCall.key, lastCall.t) <= lastCall.limit

\* C6: an admitted call makes the key's recorded admissions grow by one, and the
\* recorded admissions inside the window are as many as the admitted calls inside it.
C6_AdmittedRecordsOne ==
    /\ lastCall.ret = 0 => ZCARD(zsets[lastCall.key]) = lastCall.count + 1
    /\ \A k \in RLKeys : Cardinality(InWindow(zsets[k], now)) = AdmittedInWindow(k, now)

\* C7 (as stated): a rejected call leaves the stored admissions of every key
\* exactly as they were before the call.
C7_RejectedLeavesStoreUnchanged ==
    lastCall.ret = 1 => zsets = lastCall.before

\* C7 (amended): a rejected call records no admission, leaves every admission
\* inside the trailing window and every other key unchanged; all it may do is
\* delete admissions of its key that have left the window.
C7_RejectedOnlyPrunes ==
    lastCall.ret = 1 =>
        /\ \A k \in RLKeys \ {lastCall.key} : zsets[k] = lastCall.before[k]
        /\ zsets[lastCall.key] \subseteq lastCall.before[lastCall.key]
        /\ InWindow(zsets[lastCall.key], lastCall.t)
             = InWindow(lastCall.before[lastCall.key], lastCall.t)
        /\ lastCall.before[lastCall.key] \ zsets[lastCall.key]
             = {e \in lastCall.before[lastCall.key] : e.score <= lastCall.t - rate_limit_window}

\* a rejected call that deleted expired admissions while admissions remain stored
C7_Witness ==
    /\ lastCall.ret = 1
    /\ zsets[lastCall.key] # lastCall.before[lastCall.key]
    /\ zsets[lastCall.key] # {}

\* C8: wait_for_rate_limit returns only after one of its own polls was admitted,
\* with exactly one admission recorded per return; a rejected poll is followed by
\* a sleep of one unit, and no return happens while the polls are rejected.
C8_WaitReturnsOnAdmission ==
    \A w \in Waiters :
        /\ waiter[w].pc = "returned" => waiter[w].admitted = 1 /\ waiter[w].recorded = 1
        /\ waiter[w].pc \in {"poll", "sleep"} => waiter[w].admitted = 0 /\ waiter[w].recorded = 0
        /\ waiter[w].pc = "sleep" => waiter[w].wake >= 1 /\ waiter[w].wake <= now + 1

\* the part of C8 that is about blocking: a return follows exactly one admitted
\* poll of the call itself, and a call whose polls were all rejected has not returned
C8_BlocksUntilAdmitted ==
    \A w \in Waiters :
        /\ waiter[w].pc = "returned" <=> waiter[w].admitted = 1
        /\ waiter[w].admitted <= 1
        /\ waiter[w].pc = "sleep" => waiter[w].wake >= 1 /\ waiter[w].wake <= now + 1

\* a call of the script is evaluated in this step
Called == ncalls' = ncalls + 1

\* an admit call on one key leaves what is recorded under every other key as it is
C36_Frame ==
    /\ \A k \in RLKeys :
          (zsets'[k] # zsets[k] \/ admitLog'[k] # admitLog[k]) => (Called /\ lastCall'.key = k)
    /\ \A k1 \in Kinds : \A k2 \in Kinds \ {k1} : RLKey(k1) # RLKey(k2)

\* C36 as stated: an admit call on one key changes nothing under another key, and
\* the callers of one key share one window and one limit: two callers that poll
\* the same key in the same state get the same verdict.
C36_SharedWindowOneLimit ==
    [][/\ C36_Frame
       /\ \A w1 \in Waiters : \A w2 \in Waiters :
            (waiter[w1].pc = "poll" /\ waiter[w2].pc = "poll" /\ waiter[w1].key = waiter[w2].key) =>
                script(zsets[waiter[w1].key], now, rate_limit_window, waiter[w1].limit).ret
                  = script(zsets[waiter[w2].key], now, rate_limit_window, waiter[w2].limit).ret]_vars

\* C36 (amended): an admit call on one key changes nothing under another key, and
\* the callers of one key share one window: a call is rejected exactly when the
\* admissions recorded under its key inside the window, whoever made them, are
\* at least the limit the call itself passes.
C36_SharedWindowOwnLimit ==
    [][/\ C36_Frame
       /\ Called =>
            /\ lastCall'.before = zsets
            /\ lastCall'.ret = 1 <=>
                  Cardinality(InWindow(zsets[lastCall'.key], now)) >= lastCall'.limit
            /\ lastCall'.ret = 0 =>
                  InWindow(zsets[lastCall'.key], now) \subseteq zsets'[lastCall'.key]]_vars

\* a caller is rejected on a key because of the admission of another caller,
\* while another key holds its own admission
C36_Witness ==
    /\ lastCall.ret = 1
    /\ \E w1 \in Waiters : \E w2 \in Waiters \ {w1} :
          /\ waiter[w1].pc = "returned" /\ waiter[w1].key = lastCall.key
          /\ waiter[w2].pc = "sleep" /\ waiter[w2].key = lastCall.key
    /\ \E k \in RLKeys \ {lastCall.key} : zsets[k] # {}

====
